---- MODULE Spec2Model ----
(***************************************************************************)
(* Space-station object detectors: the category mapper, the synthetic      *)
(* fallback tables and the detection entry points of the repository,       *)
(* modelled as one state machine.  Every call of an entry point draws the  *)
(* outcome of its collaborators (file system, image decoder, neural        *)
(* detector, contour extraction, hash(), child process) from small sets    *)
(* and computes the JSON envelope the Python code returns.                 *)
(*                                                                         *)
(* Real numbers are fixed-point integers in units of 1/Unit; Unit is a     *)
(* multiple of every denominator the code uses (100, 10000, 12000, 15000)  *)
(* and of the image sides, so the arithmetic of the model is exact; the    *)
(* values of random.random() are kept to three decimals.  Timestamps are   *)
(* left out of the envelopes and generated ids are numbered.               *)
(***************************************************************************)
EXTENDS Integers, Sequences, FiniteSets, TLC

Unit == 60 * 1000
\* n hundredths, as in the code's literals: 0.85 is Pct(85)
Pct(n) == n * 600

Min(a, b) == IF a < b THEN a ELSE b

\* Python's None (an unmapped category, a function that returns nothing)
None == "<None>"
\* None where a record is expected (a function returning no envelope)
NoResult == [none |-> TRUE]
\* class_id=None, the default of map_to_target_category's second parameter
NoClassId == 0 - 1

(***************************************************************************)
(* Strings.  str.lower() and the substring test `a in b` of Python.        *)
(***************************************************************************)
UpperCase == "ABCDEFGHIJKLMNOPQRSTUVWXYZ"
LowerCase == "abcdefghijklmnopqrstuvwxyz"

LowerChar(c) ==
  IF \E i \in 1..Len(UpperCase) : SubSeq(UpperCase, i, i) = c
  THEN LET i == CHOOSE j \in 1..Len(UpperCase) : SubSeq(UpperCase, j, j) = c
       IN SubSeq(LowerCase, i, i)
  ELSE c

RECURSIVE lower(_)
lower(s) ==
  IF Len(s) = 0 THEN s
  ELSE LowerChar(SubSeq(s, 1, 1)) \o lower(SubSeq(s, 2, Len(s)))

\* Python: sub in s
In(sub, s) ==
  \E i \in 1..(Len(s) - Len(sub) + 1) : SubSeq(s, i, i + Len(sub) - 1) = sub

\* Python: any(word in s for word in words)
AnyIn(words, s) == \E k \in 1..Len(words) : In(words[k], s)

(***************************************************************************)
(* Static tables.                                                          *)
(***************************************************************************)
TARGET_CATEGORIES == <<"toolbox", "fire extinguisher", "oxygen tank">>

TargetSet == {TARGET_CATEGORIES[k] : k \in 1..Len(TARGET_CATEGORIES)}

OBJECT_COLORS ==
  [c \in TargetSet \cup {"default"} |->
     CASE c = "fire extinguisher" -> "#f44336"
       [] c = "oxygen tank" -> "#2196f3"
       [] c = "toolbox" -> "#ffc107"
       [] OTHER -> "#9c27b0"]

\* OBJECT_COLORS.get(label, OBJECT_COLORS['default'])
ColorOf(label) ==
  IF label \in DOMAIN OBJECT_COLORS THEN OBJECT_COLORS[label]
  ELSE OBJECT_COLORS["default"]

\* a slip in the id table: the suitcase (28) left out
YOLO_CLASS_MAPPING_without_suitcase ==
  24 :> "toolbox" @@ 26 :> "toolbox" @@ 33 :> "toolbox" @@ 73 :> "toolbox"
  @@ 39 :> "fire extinguisher" @@ 41 :> "fire extinguisher"
  @@ 44 :> "fire extinguisher" @@ 76 :> "fire extinguisher"
  @@ 32 :> "oxygen tank" @@ 45 :> "oxygen tank"

YOLO_CLASS_MAPPING ==
  24 :> "toolbox" @@ 26 :> "toolbox" @@ 28 :> "toolbox" @@ 33 :> "toolbox"
  @@ 73 :> "toolbox"
  @@ 39 :> "fire extinguisher" @@ 41 :> "fire extinguisher"
  @@ 44 :> "fire extinguisher" @@ 76 :> "fire extinguisher"
  @@ 32 :> "oxygen tank" @@ 45 :> "oxygen tank"

ToolboxWords == <<"tool", "box", "container", "kit", "bag">>
FireWords == <<"fire", "extinguisher", "bottle", "cylinder">>
OxygenWords == <<"oxygen", "tank", "gas", "canister", "tube">>

generate_context(label) ==
  LET label_lower == lower(label) IN
  IF In("fire", label_lower) \/ In("extinguisher", label_lower)
  THEN "Critical safety equipment. Check pressure gauge and ensure easy access."
  ELSE IF In("oxygen", label_lower) \/ In("tank", label_lower)
  THEN "Life support equipment. Verify pressure levels and connection integrity."
  ELSE IF In("tool", label_lower) \/ In("box", label_lower)
  THEN "Equipment storage. Ensure proper organization and inventory completion."
  ELSE "Space station component. Monitor for proper functionality."

(***************************************************************************)
(* The category mapper.                                                    *)
(***************************************************************************)
\* STEP 1: the first target category whose name is in the lowercased label
DirectName(original_lower) ==
  IF \E k \in 1..Len(TARGET_CATEGORIES) : In(TARGET_CATEGORIES[k], original_lower)
  THEN LET k == CHOOSE j \in 1..Len(TARGET_CATEGORIES) :
                  /\ In(TARGET_CATEGORIES[j], original_lower)
                  /\ \A i \in 1..(j - 1) : ~In(TARGET_CATEGORIES[i], original_lower)
       IN TARGET_CATEGORIES[k]
  ELSE None

\* STEP 3: the if/elif chain over the synonym lists
Synonym(original_lower) ==
  IF AnyIn(ToolboxWords, original_lower) THEN "toolbox"
  ELSE IF AnyIn(FireWords, original_lower) THEN "fire extinguisher"
  ELSE IF AnyIn(OxygenWords, original_lower) THEN "oxygen tank"
  ELSE None

\* a slip in the order of the steps: the id table before the name
map_id_first(original_class, class_id) ==
  LET original_lower == lower(original_class) IN
  IF class_id # NoClassId /\ class_id \in DOMAIN YOLO_CLASS_MAPPING
  THEN YOLO_CLASS_MAPPING[class_id]
  ELSE IF DirectName(original_lower) # None THEN DirectName(original_lower)
  ELSE Synonym(original_lower)

\* a slip that leaves STEP 3 out
map_no_synonyms(original_class, class_id) ==
  LET original_lower == lower(original_class) IN
  IF DirectName(original_lower) # None THEN DirectName(original_lower)
  ELSE IF class_id # NoClassId /\ class_id \in DOMAIN YOLO_CLASS_MAPPING
  THEN YOLO_CLASS_MAPPING[class_id]
  ELSE None

map_to_target_category(original_class, class_id) ==
  LET original_lower == lower(original_class)
      direct == DirectName(original_lower)
  IN IF direct # None THEN direct
     ELSE IF class_id # NoClassId /\ class_id \in DOMAIN YOLO_CLASS_MAPPING
     THEN YOLO_CLASS_MAPPING[class_id]
     ELSE Synonym(original_lower)

\* the copy in yolo_detector_pure.py, over the module-level YOLO_CLASS_MAPPING
pure_map_to_target_category(original_class, class_id) ==
  LET original_lower == lower(original_class)
      direct == DirectName(original_lower)
  IN IF direct # None THEN direct
     ELSE IF class_id # NoClassId /\ class_id \in DOMAIN YOLO_CLASS_MAPPING
     THEN YOLO_CLASS_MAPPING[class_id]
     ELSE Synonym(original_lower)

\* the mapping written inline in yolo_subprocess.py: space_class starts as None,
\* each step runs only while it is still unset, no check of class_id against None
subprocess_inline_mapping(original_class, class_id) ==
  LET original_lower == lower(original_class)
      step1 == DirectName(original_lower)
      step2 == IF step1 = None /\ class_id \in DOMAIN YOLO_CLASS_MAPPING
               THEN YOLO_CLASS_MAPPING[class_id] ELSE step1
  IN IF step2 = None THEN Synonym(original_lower) ELSE step2

(***************************************************************************)
(* Bounds of the model.                                                    *)
(***************************************************************************)
\* raw boxes the neural detector returns in one call, over all its results
MaxBoxes == 2
\* result objects the neural detector returns in one call
MaxResults == 2
\* contours that contour extraction returns in one pass, over all masks
MaxContours == 2

(***************************************************************************)
(* The collaborators' data.                                                *)
(***************************************************************************)
\* the files a call may name: (path, os.path.exists, cv2.imread succeeds)
ImageFiles ==
  { [path |-> "uploads/scan_1.jpg", exists |-> TRUE, readable |-> TRUE],
    [path |-> "uploads/scan_2.jpg", exists |-> TRUE, readable |-> TRUE],
    [path |-> "uploads/corrupt.jpg", exists |-> TRUE, readable |-> FALSE],
    [path |-> "uploads/missing.jpg", exists |-> FALSE, readable |-> FALSE] }

ModelPath == "models/yolov8s.pt"

\* image.shape[:2] / result.orig_shape of every decoded image: (height, width)
ImageShape == <<400, 600>>

\* result.names of the neural detector: COCO ids, and one id of a custom model
DetectorNames == 0 :> "person" @@ 28 :> "suitcase" @@ 80 :> "Oxygen Tank"

\* the raw boxes: an unmappable class on the left, in the middle (the most
\* confident) and on the right, and one box of each mappable class
RawBoxes ==
  { [cls |-> 0, conf |-> Pct(30), xyxy |-> <<60, 40, 180, 200>>],
    [cls |-> 0, conf |-> Pct(81), xyxy |-> <<240, 40, 360, 200>>],
    [cls |-> 0, conf |-> Pct(30), xyxy |-> <<420, 40, 540, 200>>],
    [cls |-> 28, conf |-> Pct(81), xyxy |-> <<60, 40, 180, 200>>],
    [cls |-> 80, conf |-> Pct(30), xyxy |-> <<420, 40, 540, 200>>] }

SeqsUpTo(S, n) == UNION { [1..k -> S] : k \in 0..n }

\* bs cut into Len(cuts) + 1 consecutive pieces at the positions cuts
Pieces(bs, cuts) ==
  [r \in 1..(Len(cuts) + 1) |->
     SubSeq(bs, (IF r = 1 THEN 0 ELSE cuts[r - 1]) + 1,
                IF r = Len(cuts) + 1 THEN Len(bs) ELSE cuts[r])]

Cuts(k, n) ==
  { c \in [1..(k - 1) -> 0..n] : \A i \in 1..(k - 2) : c[i] <= c[i + 1] }

\* what model(image_path, conf=...) may return: up to MaxResults result objects
\* holding up to MaxBoxes boxes between them
RawResults ==
  {<<>>} \cup
  { [r \in 1..Len(p) |-> [boxes |-> p[r], orig_shape |-> ImageShape,
                           names |-> DetectorNames]] :
      p \in UNION { { Pieces(bs, c) : c \in Cuts(k, Len(bs)) } :
                      k \in 1..MaxResults, bs \in SeqsUpTo(RawBoxes, MaxBoxes) } }

\* the outcome of loading the model and running it: an exception, or results.
\* A missing or undecodable image and a missing model file make the library raise.
PrimaryOutcomes(image, model_exists) ==
  IF image.exists /\ image.readable /\ model_exists
  THEN {[kind |-> "raise"]} \cup {[kind |-> "results", results |-> rs] : rs \in RawResults}
  ELSE {[kind |-> "raise"]}

RECURSIVE Flatten(_)
\* the nested loops `for result in results: for box in result.boxes`, in order
Flatten(results) ==
  IF results = <<>> THEN <<>>
  ELSE [i \in 1..Len(results[1].boxes) |->
          [box |-> results[1].boxes[i], result |-> results[1]]]
       \o Flatten(Tail(results))

\* x1 / img_width, y1 / img_height, (x2 - x1) / img_width, (y2 - y1) / img_height
Normalized(xyxy, orig_shape) ==
  LET img_height == orig_shape[1]
      img_width == orig_shape[2]
  IN [x |-> (xyxy[1] * Unit) \div img_width,
      y |-> (xyxy[2] * Unit) \div img_height,
      width |-> ((xyxy[3] - xyxy[1]) * Unit) \div img_width,
      height |-> ((xyxy[4] - xyxy[2]) * Unit) \div img_height]

\* os.path.basename
RECURSIVE basename(_)
basename(path) ==
  IF \E i \in 1..Len(path) : SubSeq(path, i, i) = "/"
  THEN basename(SubSeq(path, 2, Len(path)))
  ELSE path

ImageNotFound(image_path) ==
  [success |-> FALSE, error |-> "Image file not found: " \o image_path,
   detections |-> <<>>, count |-> 0]

Failure(message) ==
  [success |-> FALSE, error |-> message, detections |-> <<>>, count |-> 0]

(***************************************************************************)
(* The primary stage: raw boxes to detections.                             *)
(***************************************************************************)
\* a slip that drops the test `space_class in TARGET_CATEGORIES`
keep_every_class(space_class) == TRUE

\* if space_class in TARGET_CATEGORIES:
in_target_categories(space_class) == space_class \in TargetSet

\* class_id = int(box.cls[0]); original_class = result.names[class_id]
original_class_of(e) == e.result.names[e.box.cls]

\* yolo_detector.py: space_class of every raw box, in loop order
direct_space_classes(results) ==
  LET flat == Flatten(results)
  IN [i \in 1..Len(flat) |->
        map_to_target_category(original_class_of(flat[i]), flat[i].box.cls)]

\* yolo_detector_pure.py: space_class of every raw box, in loop order
pure_space_classes(results) ==
  LET flat == Flatten(results)
  IN [i \in 1..Len(flat) |->
        pure_map_to_target_category(original_class_of(flat[i]), flat[i].box.cls)]

\* yolo_subprocess.py: space_class of every raw box, in loop order
subprocess_space_classes(results) ==
  LET flat == Flatten(results)
  IN [i \in 1..Len(flat) |->
        subprocess_inline_mapping(original_class_of(flat[i]), flat[i].box.cls)]

\* the body of the box loop: one detection (without its id) per raw box whose
\* space_class is a target category, in the order of the boxes
mapped_detections(results, space_classes) ==
  LET flat == Flatten(results)
      kept_at == SelectSeq([i \in 1..Len(flat) |-> i],
                           LAMBDA i : in_target_categories(space_classes[i]))
  IN [n \in 1..Len(kept_at) |->
        LET e == flat[kept_at[n]]
            space_class == space_classes[kept_at[n]]
            g == Normalized(e.box.xyxy, e.result.orig_shape)
        IN [label |-> space_class, confidence |-> e.box.conf,
            x |-> g.x, y |-> g.y, width |-> g.width, height |-> g.height,
            color |-> ColorOf(space_class),
            context |-> generate_context(space_class),
            originalClass |-> original_class_of(e)]]

\* 'id': generate_id() on each detection in turn; ids are numbered from first
WithIds(detections, first) ==
  [n \in 1..Len(detections) |-> [id |-> first + n - 1] @@ detections[n]]

(***************************************************************************)
(* yolo_detector.py                                                        *)
(***************************************************************************)
\* detect_objects_yolo, ultralytics importable: the envelope, or None (NoResult)
yolo_direct(outcome, model_path) ==
  IF outcome.kind = "raise" THEN NoResult
  ELSE LET detections ==
             WithIds(mapped_detections(outcome.results,
                               direct_space_classes(outcome.results)), 1)
       IN IF Len(detections) > 0
          THEN [success |-> TRUE, model |-> basename(model_path),
                method |-> "yolov8-direct", detections |-> detections,
                count |-> Len(detections)]
          ELSE NoResult

\* yolo_subprocess.py, detect_with_yolo: the child's envelope
detect_with_yolo(image, model_path, model_exists, outcome) ==
  IF ~image.exists THEN Failure("Image not found: " \o image.path)
  ELSE IF ~model_exists THEN Failure("Model not found: " \o model_path)
  ELSE IF outcome.kind = "raise" THEN Failure("error")
  ELSE LET detections == mapped_detections(outcome.results,
                                 subprocess_space_classes(outcome.results))
       IN [success |-> TRUE, model |-> basename(model_path),
           method |-> "yolov8-py39", detections |-> detections,
           count |-> Len(detections)]

\* yolo_subprocess.py as a process: sys.exit(1) when ultralytics is missing,
\* else the envelope is written to --output and the exit code says success
subprocess_main(import_ok, image, model_path, model_exists, outcome) ==
  IF ~import_ok THEN [code |-> 1, written |-> NoResult]
  ELSE LET results == detect_with_yolo(image, model_path, model_exists, outcome)
       IN [code |-> IF results.success THEN 0 ELSE 1, written |-> results]

\* what subprocess.run may do: the child outlasts the 30 s, or it ends, with
\* ultralytics importable or not and with the detector's outcome
ChildRuns(image, model_exists) ==
  {[timed_out |-> TRUE, import_ok |-> TRUE, outcome |-> [kind |-> "raise"]],
   [timed_out |-> FALSE, import_ok |-> FALSE, outcome |-> [kind |-> "raise"]]}
  \cup [timed_out : {FALSE}, import_ok : {TRUE},
        outcome : PrimaryOutcomes(image, model_exists)]

\* a slip in the parent: the child's detections are returned as they were
\* written, without an id
yolo_subprocess_without_ids(image, model_path, model_exists, run) ==
  LET child == subprocess_main(run.import_ok, image, model_path, model_exists,
                               run.outcome)
  IN IF run.timed_out \/ child.code # 0 \/ child.written = NoResult THEN NoResult
     ELSE IF child.written.success /\ child.written.count > 0 THEN child.written
     ELSE NoResult

\* detect_objects_yolo, ImportError branch, from subprocess.run on: the value
\* returned. The temporary file was created empty, so an exit 0 that wrote
\* nothing leaves a file json.load cannot parse.
yolo_subprocess(image, model_path, model_exists, run) ==
  LET child == subprocess_main(run.import_ok, image, model_path, model_exists,
                               run.outcome)
  IN IF run.timed_out THEN NoResult
     ELSE IF child.code # 0 THEN NoResult
     ELSE IF child.written = NoResult THEN NoResult
     ELSE LET results == child.written IN
          IF results.success
          THEN LET with_ids == [results EXCEPT !.detections = WithIds(@, 1)]
               IN IF with_ids.count > 0 THEN with_ids ELSE NoResult
          ELSE NoResult

\* a slip: the finally clause left out
finally_skipped(file) == file

\* the finally clause of the subprocess path: `if os.path.exists(temp_output)`
\* then os.unlink(temp_output)
finally_unlink(file) == [file EXCEPT !.exists = FALSE]

\* the temporary file when detect_objects_yolo returns after subprocess.run:
\* NamedTemporaryFile(delete=False) created it empty; the try block unlinks it
\* only after json.load succeeded, that is after a child that exited with
\* code 0 (check=True raises otherwise, as does the timeout) and wrote its
\* envelope; the finally clause runs on every way out
temp_output_after(image, model_path, model_exists, run) ==
  LET child == subprocess_main(run.import_ok, image, model_path, model_exists,
                               run.outcome)
      loaded == ~run.timed_out /\ child.code = 0 /\ child.written # NoResult
      after_try == [created |-> TRUE, exists |-> ~loaded]
  IN finally_unlink(after_try)

\* hash(filename): salted per process, any integer
FileHashes == {0 - 7, 45, 46, 1234}

\* one detection placed by the file name's hash
hash_detection(file_hash) ==
  LET object_type == TARGET_CATEGORIES[(file_hash % Len(TARGET_CATEGORIES)) + 1]
  IN [id |-> 1, label |-> object_type, confidence |-> Pct(95),
      x |-> Pct(30) + (file_hash % 40) * (Unit \div 100),
      y |-> Pct(25) + (file_hash % 50) * (Unit \div 100),
      width |-> Pct(20), height |-> Pct(30),
      color |-> OBJECT_COLORS[object_type],
      context |-> generate_context(object_type)]

\* detect_objects_opencv
detect_objects_opencv(image, model_path, file_hash) ==
  IF ~image.exists THEN ImageNotFound(image.path)
  ELSE IF ~image.readable THEN Failure("Failed to read image")
  ELSE [success |-> TRUE, model |-> basename(model_path), method |-> "opencv",
        detections |-> <<hash_detection(file_hash)>>, count |-> 1]

(***************************************************************************)
(* The placeholder tables.                                                 *)
(***************************************************************************)
\* one placeholder detection, marked 'forced': True
Placeholder(id, label, confidence, x, y, width, height) ==
  [id |-> id, label |-> label, confidence |-> confidence,
   x |-> x, y |-> y, width |-> width, height |-> height,
   color |-> OBJECT_COLORS[label], context |-> generate_context(label),
   forced |-> TRUE]

\* a slip in the table: the oxygen tank placed a tenth further right, under
\* the fire extinguisher
fallback_detections_shifted ==
  << Placeholder(1, "toolbox", Pct(85), Pct(20), Pct(20), Pct(40), Pct(30)),
     Placeholder(2, "fire extinguisher", Pct(92), Pct(70), Pct(30), Pct(25), Pct(50)),
     Placeholder(3, "oxygen tank", Pct(78), Pct(50), Pct(60), Pct(30), Pct(30)) >>

\* the 'detections' list of create_fallback_detections (yolo11n_detector.py)
fallback_detections ==
  << Placeholder(1, "toolbox", Pct(85), Pct(20), Pct(20), Pct(40), Pct(30)),
     Placeholder(2, "fire extinguisher", Pct(92), Pct(70), Pct(30), Pct(25), Pct(50)),
     Placeholder(3, "oxygen tank", Pct(78), Pct(40), Pct(60), Pct(30), Pct(30)) >>

\* yolo11n_detector.py, create_fallback_detections(model_path=None)
create_fallback_detections(model_path) ==
  [success |-> TRUE,
   model |-> IF model_path # None THEN basename(model_path) ELSE "yolo11n.pt",
   method |-> "fallback", detections |-> fallback_detections, count |-> 3]

\* basic_detector.py, create_fallback_detections()
basic_create_fallback_detections ==
  [success |-> TRUE, model |-> "basic_detector", method |-> "fallback",
   detections |->
     << Placeholder(1, "toolbox", Pct(85), Pct(20), Pct(20), Pct(40), Pct(30)),
        Placeholder(2, "fire extinguisher", Pct(92), Pct(70), Pct(30), Pct(25), Pct(50)),
        Placeholder(3, "oxygen tank", Pct(78), Pct(40), Pct(60), Pct(30), Pct(30)) >>,
   count |-> 3]

(***************************************************************************)
(* yolo_detector_pure.py                                                   *)
(***************************************************************************)
\* the envelope returned when ULTRALYTICS_AVAILABLE is False
pure_unavailable(model_path) ==
  [success |-> TRUE,
   model |-> IF model_path # None THEN basename(model_path) ELSE "fallback_model",
   method |-> "fallback",
   detections |->
     << Placeholder(1, "toolbox", Pct(85), Pct(20), Pct(20), Pct(40), Pct(30)),
        Placeholder(2, "fire extinguisher", Pct(92), Pct(70), Pct(30), Pct(25), Pct(50)),
        Placeholder(3, "oxygen tank", Pct(78), Pct(40), Pct(60), Pct(30), Pct(30)) >>,
   count |-> 3]

\* the envelope returned when loading or running the model raises
pure_load_failure(model_path) ==
  [success |-> TRUE, model |-> basename(model_path), method |-> "fallback",
   detections |->
     << Placeholder(1, "toolbox", Pct(85), Pct(20), Pct(20), Pct(40), Pct(30)),
        Placeholder(2, "fire extinguisher", Pct(92), Pct(70), Pct(30), Pct(25), Pct(50)) >>,
   count |-> 2]

\* the index of the most confident box: max_conf starts at 0 and only a
\* strictly greater confidence replaces it (1-based here)
max_conf_idx(boxes) ==
  IF \E i \in 1..Len(boxes) : boxes[i].conf > 0
  THEN CHOOSE i \in 1..Len(boxes) :
         /\ \A j \in 1..Len(boxes) : boxes[j].conf <= boxes[i].conf
         /\ \A j \in 1..(i - 1) : boxes[j].conf < boxes[i].conf
  ELSE 1

\* "Force a classification": the most confident box of `boxes`, labelled by
\* its position
forced_detection(boxes, orig_shape, id) ==
  LET box == boxes[max_conf_idx(boxes)]
      g == Normalized(box.xyxy, orig_shape)
      space_class == IF g.x < Pct(33) THEN "toolbox"
                     ELSE IF g.x < Pct(66) THEN "fire extinguisher"
                     ELSE "oxygen tank"
  IN [id |-> id, label |-> space_class, confidence |-> (box.conf * 8) \div 10,
      x |-> g.x, y |-> g.y, width |-> g.width, height |-> g.height,
      color |-> OBJECT_COLORS[space_class],
      context |-> generate_context(space_class), forced |-> TRUE]

\* detect_objects of yolo_detector_pure.py. After the loops `boxes` and the image
\* sides are those of the last result; with no result at all `boxes` is unbound
\* and len(boxes) raises, which the outer except turns into a failure.
pure_detect_objects(lib, image, model_path, model_exists, outcome) ==
  IF ~lib THEN pure_unavailable(model_path)
  ELSE IF ~image.exists THEN ImageNotFound(image.path)
  ELSE IF ~model_exists THEN Failure("Model file not found: " \o model_path)
  ELSE IF outcome.kind = "raise" THEN pure_load_failure(model_path)
  ELSE
    LET results == outcome.results
        mapped == WithIds(mapped_detections(results, pure_space_classes(results)), 1)
    IN IF Len(mapped) = 0 /\ results = <<>>
       THEN Failure("local variable 'boxes' referenced before assignment")
       ELSE
         LET last == results[Len(results)]
             detections ==
               IF Len(mapped) = 0 /\ Len(last.boxes) > 0
               THEN <<forced_detection(last.boxes, last.orig_shape, 1)>>
               ELSE mapped
             final ==
               IF Len(detections) = 0
               THEN <<Placeholder(1, "toolbox", Pct(75), Pct(30), Pct(30),
                                  Pct(40), Pct(40))>>
               ELSE detections
         IN [success |-> TRUE, model |-> basename(model_path),
             method |-> "yolov8", detections |-> final, count |-> Len(final)]

(***************************************************************************)
(* main.py                                                                 *)
(***************************************************************************)
\* detect_objects_simple
detect_objects_simple(image, file_hash) ==
  IF ~image.exists THEN ImageNotFound(image.path)
  ELSE [success |-> TRUE, method |-> "standalone",
        detections |-> <<hash_detection(file_hash)>>, count |-> 1]

(***************************************************************************)
(* Contours: what cv2.findContours / contourArea / boundingRect give.      *)
(***************************************************************************)
\* the dicts `masks` (yolo11n_detector.py) and `contours` (basic_detector.py)
\* are filled, and so iterated, in this order
MaskOrder == <<"fire extinguisher", "oxygen tank", "toolbox">>

\* (contour area, bounding rectangle) in pixels, inside the image: a tall region
\* of 600 px2, a square, a wide one, a speck, a large one, and one of aspect 0.8
Contours ==
  { [area |-> 600, x |-> 60, y |-> 40, w |-> 30, h |-> 60],
    [area |-> 3000, x |-> 60, y |-> 40, w |-> 60, h |-> 60],
    [area |-> 4000, x |-> 60, y |-> 40, w |-> 120, h |-> 40],
    [area |-> 80, x |-> 60, y |-> 40, w |-> 10, h |-> 10],
    [area |-> 50000, x |-> 60, y |-> 40, w |-> 300, h |-> 200],
    [area |-> 2000, x |-> 60, y |-> 40, w |-> 60, h |-> 75] }

\* the contours of the three colour masks: label -> sequence of contours, up to
\* MaxContours between them
MaskContours ==
  { [label \in TargetSet |->
       LET mine == SelectSeq(plan, LAMBDA e : MaskOrder[e[1]] = label)
       IN [i \in 1..Len(mine) |-> mine[i][2]]] :
      plan \in { q \in SeqsUpTo((1..Len(MaskOrder)) \X Contours, MaxContours) :
                   \A i \in 1..(Len(q) - 1) : q[i][1] <= q[i + 1][1] } }

\* the contours of the edge image
EdgeContours == SeqsUpTo(Contours, MaxContours)

\* x / width, y / height, w / width, h / height
NormalizedRect(c, shape) ==
  LET height == shape[1]
      width == shape[2]
  IN [x |-> (c.x * Unit) \div width, y |-> (c.y * Unit) \div height,
      width |-> (c.w * Unit) \div width, height |-> (c.h * Unit) \div height]

\* a detection of the heuristic stage, without its id
HeuristicDetection(label, confidence, c, shape) ==
  LET g == NormalizedRect(c, shape)
  IN [label |-> label, confidence |-> confidence,
      x |-> g.x, y |-> g.y, width |-> g.width, height |-> g.height,
      color |-> ColorOf(label), context |-> generate_context(label)]

(***************************************************************************)
(* yolo11n_detector.py                                                     *)
(***************************************************************************)
\* the object-specific filters; aspect_ratio = float(w) / h is compared by
\* cross-multiplying (h > 0 for a bounding rectangle)
color_valid(obj_type, c) ==
  CASE obj_type = "fire extinguisher" -> c.w * 10 < 8 * c.h /\ c.h > 50
    [] obj_type = "oxygen tank" -> 5 * c.h < c.w * 10 /\ c.w * 10 < 15 * c.h
    [] obj_type = "toolbox" -> c.w * 10 > 8 * c.h /\ c.w > 50

\* min(cap, 0.5 + area / divisor)
color_confidence(obj_type, c) ==
  CASE obj_type = "fire extinguisher" -> Min(Pct(95), Pct(50) + c.area * (Unit \div 10000))
    [] obj_type = "oxygen tank" -> Min(Pct(90), Pct(50) + c.area * (Unit \div 15000))
    [] obj_type = "toolbox" -> Min(Pct(92), Pct(50) + c.area * (Unit \div 12000))

\* the colour pass: for each mask in order, for each contour of at least 300 px2
\* that passes its filter and whose confidence exceeds the threshold
color_pass(contours, conf_threshold, shape) ==
  LET of(obj_type) ==
        LET Ok(c) == /\ ~(c.area < 300)
                     /\ color_valid(obj_type, c)
                     /\ color_confidence(obj_type, c) > conf_threshold
            kept == SelectSeq(contours[obj_type], Ok)
        IN [i \in 1..Len(kept) |->
              HeuristicDetection(obj_type, color_confidence(obj_type, kept[i]),
                                 kept[i], shape)]
  IN WithIds(of(MaskOrder[1]) \o of(MaskOrder[2]) \o of(MaskOrder[3]), 1)

\* "Simple shape classification" of the edge pass: '' when no branch applies
shape_type(c) ==
  IF c.w * 10 < 7 * c.h /\ c.h > c.w THEN "fire extinguisher"
  ELSE IF 9 * c.h < c.w * 10 /\ c.w * 10 < 11 * c.h THEN "oxygen tank"
  ELSE IF c.w * 10 > 12 * c.h THEN "toolbox"
  ELSE ""

shape_confidence(obj_type) ==
  CASE obj_type = "fire extinguisher" -> Pct(70)
    [] obj_type = "oxygen tank" -> Pct(60)
    [] obj_type = "toolbox" -> Pct(65)
    [] OTHER -> 0

\* the edge pass: contours of at least 500 px2 that get a type and whose
\* confidence exceeds the threshold
shape_pass(shape_contours, conf_threshold, shape) ==
  LET Ok(c) == /\ ~(c.area < 500)
               /\ shape_type(c) # ""
               /\ shape_confidence(shape_type(c)) > conf_threshold
      kept == SelectSeq(shape_contours, Ok)
  IN WithIds([i \in 1..Len(kept) |->
                HeuristicDetection(shape_type(kept[i]),
                                   shape_confidence(shape_type(kept[i])),
                                   kept[i], shape)], 1)

\* the envelope at the end of detect_with_color_and_size
color_shape_result(detections) ==
  [success |-> TRUE, model |-> "yolo11n_simplified",
   method |-> "color_shape_detection", detections |-> detections,
   count |-> Len(detections)]

(***************************************************************************)
(* basic_detector.py                                                       *)
(***************************************************************************)
\* random.uniform(0.6, 0.95), one draw per detection
UniformDraws == {Pct(60), Pct(95)}

\* the contours of at least 500 px2, mask by mask: (label, contour) pairs
basic_kept(contours) ==
  LET of(label) ==
        LET Ok(c) == ~(c.area < 500)
            kept == SelectSeq(contours[label], Ok)
        IN [i \in 1..Len(kept) |-> <<label, kept[i]>>]
  IN of(MaskOrder[1]) \o of(MaskOrder[2]) \o of(MaskOrder[3])

\* detect_basic once the image is known to exist; draws[i] is the confidence
\* random.uniform gave the i-th detection
detect_basic(lib, image, contours, draws) ==
  IF ~image.exists THEN ImageNotFound(image.path)
  ELSE IF lib /\ ~image.readable THEN basic_create_fallback_detections
  ELSE
    LET kept == basic_kept(contours)
        found == WithIds([i \in 1..Len(kept) |->
                            HeuristicDetection(kept[i][1], draws[i], kept[i][2],
                                               ImageShape)], 1)
        detections ==
          IF lib
          THEN IF Len(found) = 0 THEN basic_create_fallback_detections.detections
               ELSE found
          ELSE basic_create_fallback_detections.detections
    IN [success |-> TRUE, model |-> "basic_detector",
        method |-> IF lib THEN "color_detection" ELSE "fallback",
        detections |-> detections, count |-> Len(detections)]

(***************************************************************************)
(* The random module.  A value of random.random() is kept in thousandths,  *)
(* truncated.                                                              *)
(***************************************************************************)
\* a value of random.random(), given in thousandths, as a fixed-point number
Milli(m) == m * (Unit \div 1000)

\* random.seed(image_name): the next 30 values of random.random()
SeededByName ==
  "scan_1.jpg" :>
    <<880, 547, 372, 954, 677, 994, 775, 409, 304, 181, 313, 678, 971, 804, 163,
      754, 681, 388, 70, 381, 623, 600, 504, 538, 549, 585, 813, 603, 161, 130>> @@
  "scan_2.jpg" :>
    <<24, 184, 893, 356, 754, 882, 942, 566, 567, 520, 117, 944, 122, 503, 713,
      876, 300, 24, 921, 182, 735, 135, 622, 527, 832, 676, 103, 559, 488, 187>> @@
  "corrupt.jpg" :>
    <<911, 894, 416, 97, 330, 971, 858, 999, 257, 338, 11, 247, 849, 531, 827,
      109, 283, 63, 529, 543, 349, 641, 854, 326, 425, 491, 83, 683, 161, 774>> @@
  "missing.jpg" :>
    <<355, 917, 826, 426, 822, 131, 730, 562, 17, 283, 50, 911, 849, 803, 751,
      882, 983, 350, 676, 501, 76, 134, 694, 501, 670, 341, 481, 248, 976, 276>>

\* random.seed(filename_hash): what random.randint(1, 5) gives, then what the
\* calls of random.choice(TARGET_CATEGORIES) and of random.random() give, in
\* the order yolov5_detector.py makes them
SeededByInt ==
  932 :>
    [randint |-> 5, choice |-> <<"oxygen tank", "oxygen tank">>,
     random |-> <<819, 861, 675, 633, 504, 154, 924, 179, 100, 516,
                  804, 879, 753, 994, 340, 100, 357, 220, 12, 768,
                  895, 833, 975, 292, 86>>] @@
  933 :>
    [randint |-> 5, choice |-> <<"fire extinguisher", "toolbox">>,
     random |-> <<568, 558, 15, 75, 891, 138, 347, 939, 43, 996,
                  942, 29, 557, 178, 409, 688, 146, 692, 142, 414,
                  799, 231, 775, 811, 173>>] @@
  1150 :>
    [randint |-> 2, choice |-> <<>>,
     random |-> <<419, 97, 16, 953, 51, 461, 538, 196, 927, 512,
                  638, 453, 442, 718, 381>>] @@
  1129 :>
    [randint |-> 4, choice |-> <<"fire extinguisher">>,
     random |-> <<311, 193, 826, 704, 248, 710, 594, 434, 127, 626,
                  937, 62, 674, 624, 213, 832, 974, 14, 826, 89>>]

\* the generator nobody seeded: the values random.random() may give next
UnseededStreams == {SeededByName["scan_1.jpg"], SeededByName["corrupt.jpg"]}

\* ord(c) of the characters of the file names
Ord ==
  "." :> 46 @@ "1" :> 49 @@ "2" :> 50 @@ "_" :> 95 @@ "a" :> 97 @@ "c" :> 99 @@
  "g" :> 103 @@ "i" :> 105 @@ "j" :> 106 @@ "m" :> 109 @@ "n" :> 110 @@
  "o" :> 111 @@ "p" :> 112 @@ "r" :> 114 @@ "s" :> 115 @@ "t" :> 116 @@ "u" :> 117

RECURSIVE filename_hash(_)
\* sum(ord(c) for c in image_basename)
filename_hash(image_basename) ==
  IF image_basename = "" THEN 0
  ELSE Ord[SubSeq(image_basename, 1, 1)]
       + filename_hash(SubSeq(image_basename, 2, Len(image_basename)))

\* a detection of a simulated detector
Simulated(id, label, confidence, x, y, width, height) ==
  [id |-> id, label |-> label, confidence |-> confidence,
   x |-> x, y |-> y, width |-> width, height |-> height,
   color |-> OBJECT_COLORS[label], context |-> generate_context(label)]

(***************************************************************************)
(* server/python/basic_detector.py                                         *)
(***************************************************************************)
\* the three detections.append(...) statements, given the 15 values of
\* random.random() they consume, in the order the dict literals evaluate them
basic_simulated(r) ==
  LET d(k) == Milli(r[k])
  IN << Simulated(1, "toolbox", Pct(75) + (d(1) * 2) \div 10,
                  Pct(10) + (d(2) * 2) \div 10, Pct(10) + (d(3) * 2) \div 10,
                  Pct(30) + d(4) \div 10, Pct(20) + d(5) \div 10),
        Simulated(2, "fire extinguisher", Pct(85) + d(6) \div 10,
                  Pct(60) + (d(7) * 2) \div 10, Pct(20) + (d(8) * 2) \div 10,
                  Pct(15) + d(9) \div 10, Pct(40) + d(10) \div 10),
        Simulated(3, "oxygen tank", Pct(70) + (d(11) * 2) \div 10,
                  Pct(30) + (d(12) * 2) \div 10, Pct(50) + (d(13) * 2) \div 10,
                  Pct(20) + d(14) \div 10, Pct(25) + d(15) \div 10) >>

\* the envelope detect_objects returns around its detections
basic_envelope(model_path, detections) ==
  [success |-> TRUE,
   model |-> IF model_path # None THEN basename(model_path) ELSE "yolo11n.pt",
   method |-> "yolo11n", detections |-> detections, count |-> Len(detections)]

\* detect_objects: three detections placed by the generator seeded with the name
basic_detect_objects(image, model_path) ==
  IF ~image.exists THEN ImageNotFound(image.path)
  ELSE basic_envelope(model_path,
                      basic_simulated(SeededByName[basename(image.path)]))

(***************************************************************************)
(* server/python/yolov5_detector.py                                        *)
(***************************************************************************)
\* one pass of the loop `for i in range(num_detections)`, given the five values
\* of random.random() it consumes
yolov5_detection(id, category, r) ==
  LET d(k) == Milli(r[k])
  IN [model |-> "yolov5"] @@
     (IF category = "fire extinguisher"
      THEN Simulated(id, category, Pct(70) + (d(5) * 25) \div 100,
                     Pct(60) + (d(1) * 3) \div 10, Pct(30) + (d(2) * 5) \div 10,
                     Pct(5) + d(3) \div 10, Pct(20) + (d(4) * 3) \div 10)
      ELSE IF category = "oxygen tank"
      THEN Simulated(id, category, Pct(65) + (d(5) * 3) \div 10,
                     (d(1) * 3) \div 10, (d(2) * 3) \div 10 + Pct(50),
                     Pct(8) + (d(3) * 15) \div 100, Pct(10) + (d(4) * 2) \div 10)
      ELSE Simulated(id, category, Pct(75) + (d(5) * 2) \div 10,
                     Pct(20) + (d(1) * 5) \div 10, Pct(10) + (d(2) * 3) \div 10,
                     Pct(15) + (d(3) * 2) \div 10, Pct(10) + (d(4) * 15) \div 100))

\* a slip: random.seed left out, the generator goes on from where it was
random_seed_skipped(a, state) == state

\* random.seed(a) with an int: the generator's state becomes that of the seed,
\* whatever it was before
random_seed(a, state) == SeededByInt[a]

\* detect_objects of yolov5_detector.py from random.seed on, the generator
\* being in `state` when the call begins
yolov5_seeded(state, image, model_path) ==
       LET g == random_seed(filename_hash(basename(image.path)), state)
           num_detections ==
             IF g.randint < Len(TARGET_CATEGORIES) THEN Len(TARGET_CATEGORIES)
             ELSE g.randint
           category(i) ==
             IF i <= Len(TARGET_CATEGORIES) THEN TARGET_CATEGORIES[i]
             ELSE g.choice[i - Len(TARGET_CATEGORIES)]
           detections ==
             [i \in 1..num_detections |->
                yolov5_detection(i, category(i), SubSeq(g.random, 5 * i - 4, 5 * i))]
       IN [success |-> TRUE,
           model |-> IF model_path # None THEN basename(model_path) ELSE "yolov5s.pt",
           method |-> "yolov5", detections |-> detections,
           count |-> Len(detections)]

\* detect_objects of yolov5_detector.py
yolov5_detect_objects(image, model_path) ==
  IF ~image.exists THEN ImageNotFound(image.path)
  ELSE yolov5_seeded(NoResult, image, model_path)

(***************************************************************************)
(* server/python/yolov5_integrated.py                                      *)
(***************************************************************************)
COCO_TO_SPACE_MAPPING ==
  0 :> "oxygen tank" @@ 56 :> "fire extinguisher" @@ 73 :> "toolbox" @@
  39 :> "toolbox" @@ 64 :> "toolbox" @@ 65 :> "oxygen tank" @@ 67 :> "toolbox" @@
  44 :> "fire extinguisher" @@ 76 :> "toolbox" @@ 47 :> "fire extinguisher"

\* reversed(det)
reversed(det) == [i \in 1..Len(det) |-> det[Len(det) + 1 - i]]

RECURSIVE v5_boxes(_)
\* the boxes in the order the loops `for i, det in enumerate(pred)` and
\* `for *xyxy, conf, cls in reversed(det)` visit them
v5_boxes(pred) ==
  IF pred = <<>> THEN <<>>
  ELSE reversed(pred[1].boxes) \o v5_boxes(Tail(pred))

\* what the label of each visited box may become: its entry of
\* COCO_TO_SPACE_MAPPING, or without one whatever random.choice picks
v5_labelings(boxes) ==
  { f \in [1..Len(boxes) -> TargetSet] :
      \A k \in 1..Len(boxes) :
        boxes[k].cls \in DOMAIN COCO_TO_SPACE_MAPPING
          => f[k] = COCO_TO_SPACE_MAPPING[boxes[k].cls] }

\* centre and size of a pixel box as fractions of the image
v5_centered(xyxy, shape) ==
  LET h == shape[1]
      w == shape[2]
  IN [x |-> ((xyxy[1] + xyxy[3]) * Unit) \div (2 * w),
      y |-> ((xyxy[2] + xyxy[4]) * Unit) \div (2 * h),
      width |-> ((xyxy[3] - xyxy[1]) * Unit) \div w,
      height |-> ((xyxy[4] - xyxy[2]) * Unit) \div h]

\* the synthetic detection added for a missing category
v5_synthetic(id, category, r) ==
  LET d(k) == Milli(r[k])
  IN [model |-> "yolov5"] @@
     Simulated(id, category, Pct(35) + (d(1) * 4) \div 10,
               Pct(10) + (d(2) * 8) \div 10, Pct(10) + (d(3) * 8) \div 10,
               Pct(5) + (d(4) * 2) \div 10, Pct(5) + (d(5) * 2) \div 10)

\* detect_with_yolov5 with torch and the YOLOv5 repository importable
v5_detect(outcome, model_name, labels, stream) ==
  IF outcome.kind = "raise" THEN Failure("inference failed")
  ELSE LET boxes == v5_boxes(outcome.results)
           found ==
             [k \in 1..Len(boxes) |->
                LET g == v5_centered(boxes[k].xyxy, ImageShape)
                IN [model |-> "yolov5"] @@
                   Simulated(k, labels[k], boxes[k].conf,
                             g.x, g.y, g.width, g.height)]
           existing_labels == { found[k].label : k \in 1..Len(found) }
           Missing(category) == category \notin existing_labels
           missing == SelectSeq(TARGET_CATEGORIES, Missing)
           added ==
             [j \in 1..Len(missing) |->
                v5_synthetic(Len(found) + j, missing[j],
                             SubSeq(stream, 5 * j - 4, 5 * j))]
           detections == found \o added
       IN [success |-> TRUE, model |-> model_name, method |-> "yolov5",
           detections |-> detections, count |-> Len(detections)]

(***************************************************************************)
(* The state machine.                                                      *)
(***************************************************************************)
VARIABLES
  pc,      \* "idle", the stage the running call is about to enter, or "done"
  entry,   \* the entry point that was called
  inp,     \* its arguments and the environment it runs in
  raw,     \* what the neural detector (or the child process) did, once run
  heur,    \* what hash() / contour extraction / random gave, once run
  out,     \* the envelope the call returned, once done
  stages,  \* the stages the call has entered, in order
  generator,  \* the hidden instance of module random, shared by all threads
  threads,    \* the calls that run in parallel threads, one record per thread
  temp_output \* the temporary .json file of the subprocess path: whether the
              \* running call created one, and whether it is on disk

vars == <<pc, entry, inp, raw, heur, out, stages, generator, threads, temp_output>>

EntryPoints ==
  {"yolo_detector", "yolo_detector_pure", "yolo11n_detector", "basic_detector",
   "main", "server_basic_detector", "yolov5_detector", "yolov5_integrated",
   "map_to_target_category"}

\* raw class names a detector may report: names of target categories (alone,
\* in other case, inside a longer name, two at once), synonyms of one
\* category, of two, and names that say nothing
RawLabels ==
  {"toolbox", "Fire Extinguisher", "red oxygen tank", "oxygen tank toolbox",
   "bottle", "handbag", "gas cylinder", "tube", "person", "sports ball"}

\* class ids a caller may pass: none, ids of each category of the table, and
\* an id the table does not hold
ClassIds == {NoClassId, 28, 39, 32, 0}

\* the confidence thresholds a caller passes (--conf, default 0.25); 0.65 and
\* 0.7 are confidences the passes compute
Thresholds == {Pct(25), Pct(65), Pct(70)}

\* a decodable file, an undecodable one and a missing one: the entry points
\* whose result does not depend on the file's name are called on these
OneOfEach == { f \in ImageFiles : f.path # "uploads/scan_2.jpg" }

\* the arguments and the environment each entry point reads; lib is whether
\* the library it imports (ultralytics, cv2, torch) is installed
Inputs(e) ==
  CASE e = "yolo_detector" ->
         [image : OneOfEach, model_path : {ModelPath}, model_exists : BOOLEAN,
          lib : BOOLEAN, python39 : BOOLEAN]
    [] e = "yolo_detector_pure" ->
         [image : OneOfEach, model_path : {ModelPath}, model_exists : BOOLEAN,
          lib : BOOLEAN]
    [] e = "yolo11n_detector" ->
         [image : OneOfEach, lib : BOOLEAN, conf_threshold : Thresholds]
    [] e = "basic_detector" -> [image : OneOfEach, lib : BOOLEAN]
    [] e = "main" -> [image : ImageFiles]
    [] e \in {"server_basic_detector", "yolov5_detector"} ->
         [image : ImageFiles, model_path : {None, ModelPath}]
    [] e = "yolov5_integrated" ->
         [image : ImageFiles, model_name : {"yolov5s"}, lib : BOOLEAN]
    [] e = "map_to_target_category" ->
         [original_class : RawLabels, class_id : ClassIds]

FirstStage(e) ==
  CASE e \in {"yolo_detector", "yolo_detector_pure", "yolov5_integrated"} -> "primary"
    [] e \in {"server_basic_detector", "yolov5_detector"} -> "simulated"
    [] e = "map_to_target_category" -> "map"
    [] OTHER -> "heuristic"

\* no temporary file was created and none is on disk
NoFile == [created |-> FALSE, exists |-> FALSE]

Init ==
  /\ pc = "idle"
  /\ entry = None
  /\ inp = NoResult
  /\ raw = NoResult
  /\ heur = NoResult
  /\ out = NoResult
  /\ stages = <<>>
  /\ generator = NoResult
  /\ threads = <<>>
  /\ temp_output = NoFile

\* a caller invokes an entry point
Call ==
  /\ pc = "idle"
  /\ \E e \in EntryPoints : \E i \in Inputs(e) :
       /\ entry' = e
       /\ inp' = i
       /\ pc' = FirstStage(e)
  /\ UNCHANGED <<raw, heur, out, stages>>
  /\ UNCHANGED <<generator, threads, temp_output>>

\* the caller takes the envelope; nothing persists across calls
Return ==
  /\ pc = "done"
  /\ pc' = "idle"
  /\ entry' = None
  /\ inp' = NoResult
  /\ raw' = NoResult
  /\ heur' = NoResult
  /\ out' = NoResult
  /\ stages' = <<>>
  /\ temp_output' = [temp_output EXCEPT !.created = FALSE]
  /\ UNCHANGED <<generator, threads>>

\* a slip in detect_objects: a primary stage that returns None ends the call
\* with a failure instead of falling back
AfterYoloFatal(yolo_results) ==
  IF yolo_results # NoResult /\ yolo_results.count > 0
  THEN pc' = "done" /\ out' = yolo_results
  ELSE pc' = "done" /\ out' = Failure("YOLOv8 detection failed")

\* detect_objects: `yolo_results is not None and yolo_results.get('count', 0) > 0`
\* returns the primary's envelope, anything else falls back to OpenCV
AfterYolo(yolo_results) ==
  IF yolo_results # NoResult /\ yolo_results.count > 0
  THEN pc' = "done" /\ out' = yolo_results
  ELSE pc' = "heuristic" /\ out' = out

\* detect_objects_yolo when `from ultralytics import YOLO` succeeds. The try
\* block holds the loading and the inference too, so an ImportError raised
\* there (a checkpoint that names a module the interpreter lacks raises
\* ModuleNotFoundError) is caught by the same `except ImportError` as a failed
\* import
yd_yolo_direct ==
  /\ pc = "primary" /\ entry = "yolo_detector" /\ inp.lib
  /\ \/ \E outcome \in PrimaryOutcomes(inp.image, inp.model_exists) :
          /\ raw' = outcome
          /\ AfterYolo(yolo_direct(outcome, inp.model_path))
     \/ /\ inp.model_exists
        /\ raw' = [kind |-> "ImportError"]
        /\ pc' = "subprocess"
        /\ out' = out
  /\ stages' = Append(stages, "primary")
  /\ UNCHANGED <<entry, inp, heur>>
  /\ UNCHANGED <<generator, threads, temp_output>>

\* detect_objects_yolo on ImportError: the Python 3.9 child process, run only
\* if image, model, interpreter and script all exist. After an ImportError of
\* the in-process detector the child is a second run of the primary detector.
yd_yolo_subprocess ==
  /\ entry = "yolo_detector"
  /\ \/ pc = "primary" /\ ~inp.lib
     \/ pc = "subprocess"
  /\ IF inp.image.exists /\ inp.model_exists /\ inp.python39
     THEN \E run \in ChildRuns(inp.image, inp.model_exists) :
            /\ raw' = IF pc = "subprocess"
                      THEN [kind |-> "ImportError", child |-> run]
                      ELSE run
            /\ AfterYolo(yolo_subprocess(inp.image, inp.model_path,
                                         inp.model_exists, run))
            /\ stages' = Append(stages, "primary")
            /\ temp_output' = temp_output_after(inp.image, inp.model_path,
                                               inp.model_exists, run)
     ELSE /\ raw' = raw
          /\ temp_output' = temp_output
          /\ AfterYolo(NoResult)
          /\ stages' = IF pc = "subprocess" THEN stages
                       ELSE Append(stages, "primary")
  /\ UNCHANGED <<entry, inp, heur>>
  /\ UNCHANGED <<generator, threads>>

\* detect_objects_opencv, the fallback of detect_objects: the colour analysis
\* goes through, or one of its OpenCV calls raises and the except clause
\* returns the failure envelope with str(e). max_color is the category whose
\* mask holds the most pixels of the image; the code computes it and builds
\* the detection from hash(filename) alone.
yd_opencv ==
  /\ pc = "heuristic" /\ entry = "yolo_detector"
  /\ \/ \E file_hash \in FileHashes : \E max_color \in TargetSet :
          /\ out' = detect_objects_opencv(inp.image, inp.model_path, file_hash)
          /\ heur' = IF inp.image.exists /\ inp.image.readable
                     THEN [file_hash |-> file_hash, max_color |-> max_color]
                     ELSE heur
     \/ /\ inp.image.exists /\ inp.image.readable
        /\ out' = Failure("OpenCV error")
        /\ heur' = [kind |-> "raise"]
  /\ pc' = "done"
  /\ stages' = Append(stages, "heuristic")
  /\ UNCHANGED <<entry, inp, raw>>
  /\ UNCHANGED <<generator, threads, temp_output>>

\* the stages detect_objects of yolo_detector_pure.py went through
pure_stages(lib, image, model_exists, outcome) ==
  IF ~lib THEN <<"synthetic">>
  ELSE IF ~image.exists \/ ~model_exists THEN <<>>
  ELSE IF outcome.kind = "raise" THEN <<"primary", "synthetic">>
  ELSE IF Len(mapped_detections(outcome.results,
                                pure_space_classes(outcome.results))) > 0
          \/ outcome.results = <<>>
  THEN <<"primary">>
  ELSE IF Len(outcome.results[Len(outcome.results)].boxes) > 0
  THEN <<"primary", "forced">>
  ELSE <<"primary", "synthetic">>

\* detect_objects of yolo_detector_pure.py, the whole call
pure_detect ==
  /\ pc = "primary" /\ entry = "yolo_detector_pure"
  /\ \E outcome \in (IF inp.lib /\ inp.image.exists /\ inp.model_exists
                     THEN PrimaryOutcomes(inp.image, inp.model_exists)
                     ELSE {NoResult}) :
       LET result == pure_detect_objects(inp.lib, inp.image, inp.model_path,
                                         inp.model_exists, outcome)
       IN /\ raw' = outcome
          /\ out' = result
          /\ stages' = pure_stages(inp.lib, inp.image, inp.model_exists, outcome)
  /\ pc' = "done"
  /\ UNCHANGED <<entry, inp, heur>>
  /\ UNCHANGED <<generator, threads, temp_output>>

\* detect_objects_simple of main.py, the whole call
main_detect ==
  /\ pc = "heuristic" /\ entry = "main"
  /\ \E file_hash \in FileHashes :
       /\ out' = detect_objects_simple(inp.image, file_hash)
       /\ heur' = IF inp.image.exists THEN [file_hash |-> file_hash] ELSE heur
  /\ stages' = IF inp.image.exists THEN <<"heuristic">> ELSE <<>>
  /\ pc' = "done"
  /\ UNCHANGED <<entry, inp, raw>>
  /\ UNCHANGED <<generator, threads, temp_output>>

\* what the OpenCV calls of a heuristic pass may do: raise, or give contours
HeuristicOutcomes(S) ==
  {[kind |-> "raise"]} \cup {[kind |-> "contours", contours |-> c] : c \in S}

\* detect_with_color_and_size up to the end of the colour pass
y11_color ==
  /\ pc = "heuristic" /\ entry = "yolo11n_detector"
  /\ IF ~inp.lib
     THEN /\ out' = create_fallback_detections(None)
          /\ stages' = <<"synthetic">>
          /\ pc' = "done" /\ heur' = heur
     ELSE IF ~inp.image.exists
     THEN /\ out' = ImageNotFound(inp.image.path)
          /\ stages' = stages
          /\ pc' = "done" /\ heur' = heur
     ELSE IF ~inp.image.readable
     THEN /\ out' = create_fallback_detections(None)
          /\ stages' = <<"synthetic">>
          /\ pc' = "done" /\ heur' = heur
     ELSE \E o \in HeuristicOutcomes(MaskContours) :
            /\ heur' = IF o.kind = "contours"
                          /\ Len(color_pass(o.contours, inp.conf_threshold,
                                            ImageShape)) = 0
                       THEN [color |-> [kind |-> "nothing kept"]]
                       ELSE [color |-> o]
            /\ IF o.kind = "raise"
               THEN /\ out' = create_fallback_detections(None)
                    /\ stages' = <<"heuristic", "synthetic">>
                    /\ pc' = "done"
               ELSE LET detections == color_pass(o.contours, inp.conf_threshold,
                                                 ImageShape)
                    IN /\ stages' = <<"heuristic">>
                       /\ IF Len(detections) = 0
                          THEN pc' = "shape" /\ out' = out
                          ELSE pc' = "done" /\ out' = color_shape_result(detections)
  /\ UNCHANGED <<entry, inp, raw>>
  /\ UNCHANGED <<generator, threads, temp_output>>

\* detect_with_color_and_size from "If no detections found" on: the edge pass
y11_shape ==
  /\ pc = "shape" /\ entry = "yolo11n_detector"
  /\ \E o \in HeuristicOutcomes(EdgeContours) :
       /\ heur' = [shape |-> o]
       /\ IF o.kind = "raise"
          THEN /\ out' = create_fallback_detections(None)
               /\ stages' = Append(stages, "synthetic")
          ELSE LET detections == shape_pass(o.contours, inp.conf_threshold,
                                            ImageShape)
               IN IF Len(detections) = 0
                  THEN /\ out' = create_fallback_detections(None)
                       /\ stages' = Append(stages, "synthetic")
                  ELSE /\ out' = color_shape_result(detections)
                       /\ stages' = stages
  /\ pc' = "done"
  /\ UNCHANGED <<entry, inp, raw>>
  /\ UNCHANGED <<generator, threads, temp_output>>

\* detect_basic of basic_detector.py, the whole call
basic_detect ==
  /\ pc = "heuristic" /\ entry = "basic_detector"
  /\ IF inp.lib /\ inp.image.exists /\ inp.image.readable
     THEN \E o \in HeuristicOutcomes(MaskContours) :
            IF o.kind = "raise"
            THEN /\ heur' = o
                 /\ out' = basic_create_fallback_detections
                 /\ stages' = <<"heuristic", "synthetic">>
            ELSE \E draws \in [1..Len(basic_kept(o.contours)) -> UniformDraws] :
                   /\ heur' = [o EXCEPT !.kind = @] @@ [draws |-> draws]
                   /\ out' = detect_basic(inp.lib, inp.image, o.contours, draws)
                   /\ stages' = IF Len(basic_kept(o.contours)) = 0
                                THEN <<"heuristic", "synthetic">>
                                ELSE <<"heuristic">>
     ELSE /\ heur' = heur
          /\ out' = detect_basic(inp.lib, inp.image, NoResult, <<>>)
          /\ stages' = IF inp.image.exists THEN <<"synthetic">> ELSE <<>>
  /\ pc' = "done"
  /\ UNCHANGED <<entry, inp, raw>>
  /\ UNCHANGED <<generator, threads, temp_output>>

\* detect_objects of server/python/basic_detector.py, the whole call
server_basic_detect ==
  /\ pc = "simulated" /\ entry = "server_basic_detector"
  /\ out' = basic_detect_objects(inp.image, inp.model_path)
  /\ heur' = IF inp.image.exists
             THEN [random |-> SeededByName[basename(inp.image.path)]]
             ELSE heur
  /\ stages' = IF inp.image.exists THEN <<"simulated">> ELSE <<>>
  /\ pc' = "done"
  /\ UNCHANGED <<entry, inp, raw>>
  /\ UNCHANGED <<generator, threads, temp_output>>

\* detect_objects of yolov5_detector.py, the whole call
yolov5_detect ==
  /\ pc = "simulated" /\ entry = "yolov5_detector"
  /\ out' = yolov5_detect_objects(inp.image, inp.model_path)
  /\ heur' = IF inp.image.exists
             THEN SeededByInt[filename_hash(basename(inp.image.path))]
             ELSE heur
  /\ stages' = IF inp.image.exists THEN <<"simulated">> ELSE <<>>
  /\ pc' = "done"
  /\ UNCHANGED <<entry, inp, raw>>
  /\ UNCHANGED <<generator, threads, temp_output>>

\* loading the model and running it on the one image: an exception, or pred,
\* which holds one det for the image
v5_outcomes(image) ==
  { o \in PrimaryOutcomes(image, TRUE) :
      o.kind = "results" => Len(o.results) = 1 }

\* detect_with_yolov5 of yolov5_integrated.py, the whole call
v5i_detect ==
  /\ pc = "primary" /\ entry = "yolov5_integrated"
  /\ IF ~inp.image.exists
     THEN /\ out' = ImageNotFound(inp.image.path)
          /\ UNCHANGED <<raw, heur, stages>>
     ELSE IF ~inp.lib
     THEN /\ out' = yolov5_detect_objects(inp.image, inp.model_name)
          /\ heur' = SeededByInt[filename_hash(basename(inp.image.path))]
          /\ stages' = <<"simulated">>
          /\ raw' = raw
     ELSE \E outcome \in v5_outcomes(inp.image) :
            /\ raw' = outcome
            /\ IF outcome.kind = "raise"
               THEN /\ out' = v5_detect(outcome, inp.model_name, <<>>, <<>>)
                    /\ heur' = heur
                    /\ stages' = <<"primary">>
               ELSE \E labels \in v5_labelings(v5_boxes(outcome.results)) :
                    \E stream \in UnseededStreams :
                      LET result == v5_detect(outcome, inp.model_name, labels, stream)
                          used == result.count - Len(labels)
                      IN /\ out' = result
                         /\ heur' = [labels |-> labels,
                                     random |-> SubSeq(stream, 1, 5 * used)]
                         /\ stages' = IF used > 0 THEN <<"primary", "fill">>
                                      ELSE <<"primary">>
  /\ pc' = "done"
  /\ UNCHANGED <<entry, inp>>
  /\ UNCHANGED <<generator, threads, temp_output>>

\* one call of the category mapper, and of its two copies, on the same arguments
map_call ==
  /\ pc = "map" /\ entry = "map_to_target_category"
  /\ out' = [category |-> map_to_target_category(inp.original_class, inp.class_id),
             pure |-> pure_map_to_target_category(inp.original_class, inp.class_id),
             inline |-> subprocess_inline_mapping(inp.original_class, inp.class_id)]
  /\ pc' = "done"
  /\ UNCHANGED <<entry, inp, raw, heur, stages>>
  /\ UNCHANGED <<generator, threads, temp_output>>

Next ==
  \/ Call
  \/ Return
  \/ yd_yolo_direct
  \/ yd_yolo_subprocess
  \/ yd_opencv
  \/ pure_detect
  \/ main_detect
  \/ y11_color
  \/ y11_shape
  \/ basic_detect
  \/ server_basic_detect
  \/ yolov5_detect
  \/ v5i_detect
  \/ map_call

Spec == Init /\ [][Next]_vars

(***************************************************************************)
(* Calls in parallel threads.  `import random` gives every thread the same *)
(* hidden generator: random.seed sets it and random.random() advances it,  *)
(* whoever calls.  A thread may be switched out between any two of its     *)
(* calls into module random; here it is switched between two statements    *)
(* (between two detections), which is a subset of those interleavings.     *)
(***************************************************************************)
Threads == {1, 2}

\* the entry points whose detections come from no image evidence: the
\* placeholder table of basic_detector.py (cv2 missing), the simulated
\* detector, and yolov5_integrated.py when the model finds nothing
Generators == {"basic_detector", "server_basic_detector", "yolov5_integrated"}

\* the files the parallel calls name
ThreadImages == { f \in ImageFiles : f.path # "uploads/corrupt.jpg" }

\* the model ran and found nothing: pred holds one empty det
NoBoxes ==
  [kind |-> "results",
   results |-> <<[boxes |-> <<>>, orig_shape |-> ImageShape,
                  names |-> DetectorNames]>>]

IdleThread ==
  [pc |-> "idle", entry |-> None, image |-> NoResult, drawn |-> <<>>,
   out |-> NoResult]

\* the process has imported random (seeded from the system's entropy) and no
\* thread has called yet
InitThreads ==
  /\ pc = "idle"
  /\ entry = None
  /\ inp = NoResult
  /\ raw = NoResult
  /\ heur = NoResult
  /\ out = NoResult
  /\ stages = <<>>
  /\ generator \in [stream : UnseededStreams, pos : {0}]
  /\ threads = [t \in Threads |-> IdleThread]
  /\ temp_output = NoFile

\* thread t calls an entry point
t_call(t) ==
  /\ threads[t].pc = "idle"
  /\ \E e \in Generators : \E image \in ThreadImages :
       threads' = [threads EXCEPT ![t] = [@ EXCEPT !.pc = "called", !.entry = e,
                                                   !.image = image]]
  /\ UNCHANGED <<temp_output, pc, entry, inp, raw, heur, out, stages, generator>>

\* basic_detector.py, detect_basic without cv2: the placeholder table
t_table(t) ==
  /\ threads[t].pc = "called" /\ threads[t].entry = "basic_detector"
  /\ threads' = [threads EXCEPT ![t] =
                   [@ EXCEPT !.pc = "done",
                             !.out = detect_basic(FALSE, threads[t].image,
                                                  NoResult, <<>>)]]
  /\ UNCHANGED <<temp_output, pc, entry, inp, raw, heur, out, stages, generator>>

\* server/python/basic_detector.py up to random.seed(image_name)
t_seed(t) ==
  /\ threads[t].pc = "called" /\ threads[t].entry = "server_basic_detector"
  /\ IF ~threads[t].image.exists
     THEN /\ threads' = [threads EXCEPT ![t] =
                           [@ EXCEPT !.pc = "done",
                                     !.out = ImageNotFound(threads[t].image.path)]]
          /\ generator' = generator
     ELSE /\ threads' = [threads EXCEPT ![t] = [@ EXCEPT !.pc = "draw"]]
          /\ generator' =
               [stream |-> SeededByName[basename(threads[t].image.path)],
                pos |-> 0]
  /\ UNCHANGED <<temp_output, pc, entry, inp, raw, heur, out, stages>>

\* yolov5_integrated.py up to the end of the box loops, the model finding nothing
t_v5_primary(t) ==
  /\ threads[t].pc = "called" /\ threads[t].entry = "yolov5_integrated"
  /\ threads' = [threads EXCEPT ![t] =
                   IF threads[t].image.exists THEN [@ EXCEPT !.pc = "draw"]
                   ELSE [@ EXCEPT !.pc = "done",
                                  !.out = ImageNotFound(threads[t].image.path)]]
  /\ UNCHANGED <<temp_output, pc, entry, inp, raw, heur, out, stages, generator>>

\* one detection is built: five calls of random.random() on the shared
\* generator; after the third detection the call returns its envelope
t_draw(t) ==
  /\ threads[t].pc = "draw"
  /\ LET values == SubSeq(generator.stream, generator.pos + 1, generator.pos + 5)
         drawn == threads[t].drawn \o values
         result ==
           IF threads[t].entry = "server_basic_detector"
           THEN basic_envelope(None, basic_simulated(drawn))
           ELSE v5_detect(NoBoxes, "yolov5s", <<>>, drawn)
     IN /\ generator' = [generator EXCEPT !.pos = @ + 5]
        /\ threads' = [threads EXCEPT ![t] =
                         IF Len(drawn) = 5 * Len(TARGET_CATEGORIES)
                         THEN [@ EXCEPT !.drawn = drawn, !.pc = "done",
                                        !.out = result]
                         ELSE [@ EXCEPT !.drawn = drawn]]
  /\ UNCHANGED <<temp_output, pc, entry, inp, raw, heur, out, stages>>

NextThreads ==
  \E t \in Threads :
    \/ t_call(t)
    \/ t_table(t)
    \/ t_seed(t)
    \/ t_v5_primary(t)
    \/ t_draw(t)

SpecThreads == InitThreads /\ [][NextThreads]_vars

(***************************************************************************)
(* Calls of yolov5_detector.py made one after the other in one process:    *)
(* threads[t] is the t-th of them.                                         *)
(***************************************************************************)
\* the states a generator is in when it was not seeded for the call at hand:
\* the next randint(1, 5) gives 3 and random() goes on in a stream
UnseededStates ==
  { [randint |-> 3, choice |-> <<>>, random |-> stream] :
      stream \in UnseededStreams }

InitSequential ==
  /\ pc = "idle"
  /\ entry = None
  /\ inp = NoResult
  /\ raw = NoResult
  /\ heur = NoResult
  /\ out = NoResult
  /\ stages = <<>>
  /\ generator \in UnseededStates
  /\ threads = [t \in Threads |-> IdleThread]
  /\ temp_output = NoFile

\* the caller makes the next call once no call is running
s_call(t) ==
  /\ threads[t].pc = "idle"
  /\ \A u \in Threads : threads[u].pc \in {"idle", "done"}
  /\ \E image \in ImageFiles :
       threads' = [threads EXCEPT ![t] =
                     [@ EXCEPT !.pc = "called", !.entry = "yolov5_detector",
                               !.image = image]]
  /\ UNCHANGED <<temp_output, pc, entry, inp, raw, heur, out, stages, generator>>

\* detect_objects of yolov5_detector.py, the whole call; its draws leave the
\* generator in a state that is no fresh seed
s_detect(t) ==
  /\ threads[t].pc = "called"
  /\ IF ~threads[t].image.exists
     THEN /\ threads' = [threads EXCEPT ![t] =
                           [@ EXCEPT !.pc = "done",
                                     !.out = ImageNotFound(threads[t].image.path)]]
          /\ generator' = generator
     ELSE /\ threads' = [threads EXCEPT ![t] =
                           [@ EXCEPT !.pc = "done",
                                     !.out = yolov5_seeded(generator,
                                                           threads[t].image, None)]]
          /\ generator' \in UnseededStates
  /\ UNCHANGED <<temp_output, pc, entry, inp, raw, heur, out, stages>>

NextSequential ==
  \E t \in Threads :
    \/ s_call(t)
    \/ s_detect(t)

SpecSequential == InitSequential /\ [][NextSequential]_vars

(***************************************************************************)
(* Properties of the returned envelopes.                                   *)
(***************************************************************************)
\* the entry points that take an image and return an envelope
Detectors == EntryPoints \ {"map_to_target_category"}

\* a detector has returned
Returned == pc = "done" /\ entry \in Detectors

\* the detections of the returned envelope
Detections == { out.detections[k] : k \in 1..Len(out.detections) }

\* the returned envelope is a non-empty success
NonEmptySuccess == out.success /\ out.count >= 1

\* the returned envelope is the failure envelope: success false, nothing detected
FailureEnvelope ==
  ~out.success /\ out.count = 0 /\ out.detections = <<>> /\ out.error # ""

\* C1: for every image path that exists and decodes, the call returns an
\* envelope with success == true and count >= 1, whatever the primary detector
\* does and whatever the heuristic stage finds.
C1_ValidImageAlwaysSucceeds ==
  (Returned /\ inp.image.exists /\ inp.image.readable) => NonEmptySuccess

\* the primary detector stage of the running call failed: its library is not
\* importable, the model file is missing, loading or inference raised, the
\* child process could not be started, timed out or exited non-zero
PrimaryFailed ==
  CASE entry = "yolo_detector" ->
         IF inp.lib THEN raw.kind \in {"raise", "ImportError"}
         ELSE \/ ~inp.model_exists
              \/ ~inp.python39
              \/ raw.timed_out
              \/ ~raw.import_ok
              \/ raw.outcome.kind = "raise"
    [] entry = "yolo_detector_pure" ->
         ~inp.lib \/ ~inp.model_exists \/ raw.kind = "raise"
    [] OTHER -> FALSE

\* C2: a failure of the primary detector stage of any kind never produces
\* success == false by itself: on an image that exists and decodes the call
\* still ends in a non-empty success.
C2_PrimaryFailureNeverFatal ==
  (Returned /\ inp.image.exists /\ inp.image.readable /\ PrimaryFailed)
    => NonEmptySuccess

\* C3: if the image path does not exist the call returns success == false,
\* count == 0, no detections and a non-empty error, in every configuration of
\* the environment.
C3_MissingImageFails ==
  (Returned /\ ~inp.image.exists) => FailureEnvelope

\* the entry points that decode the image themselves or hand it to a detector
\* that does
Decoders ==
  {"yolo_detector", "yolo_detector_pure", "yolo11n_detector", "basic_detector"}

\* C4: if the image path exists but the file cannot be decoded, the call ends
\* in the failure envelope and no stage contributes detections.
C4_UndecodableImageFails ==
  (Returned /\ entry \in Decoders /\ inp.image.exists /\ ~inp.image.readable)
    => FailureEnvelope

\* C5: in every envelope returned by any entry point, every detection's label
\* is one of toolbox, fire extinguisher, oxygen tank.
C5_LabelsAreTargetCategories ==
  Returned =>
    \A d \in Detections : d.label \in {"toolbox", "fire extinguisher", "oxygen tank"}

\* a primary stage returned an envelope built from raw boxes among which one has
\* a class name that is no target category and one was mapped and kept
C5_Witness ==
  /\ Returned
  /\ entry = "yolo_detector"
  /\ "kind" \in DOMAIN raw
  /\ raw.kind = "results"
  /\ \E r \in 1..Len(raw.results) : \E i \in 1..Len(raw.results[r].boxes) :
       raw.results[r].boxes[i].cls = 0
  /\ out.success
  /\ out.method = "yolov8-direct"
  /\ \E d \in Detections : d.originalClass = "suitcase" /\ d.label = "toolbox"

\* the box of a detection lies inside the image
InsideImage(d) ==
  /\ 0 <= d.x /\ 0 <= d.y /\ 0 <= d.width /\ 0 <= d.height
  /\ d.x + d.width <= Unit
  /\ d.y + d.height <= Unit

\* C6: every detection in every result has a box fully inside the image:
\* 0 <= x, y, width, height, x + width <= 1 and y + height <= 1.
C6_BoxesInsideImage ==
  Returned => \A d \in Detections : InsideImage(d)

\* the category mapper has returned
Mapped == pc = "done" /\ entry = "map_to_target_category"

\* some word of the list is a substring of the lowercased label
Mentions(words, label) ==
  \E i \in 1..Len(words) : In(words[i], lower(label))

\* the positions in TARGET_CATEGORIES of the names the lowercased label holds
NamedIn(label) ==
  { k \in 1..Len(TARGET_CATEGORIES) : In(TARGET_CATEGORIES[k], lower(label)) }

\* the class id is given and the id table has it
InIdTable(class_id) ==
  class_id # NoClassId /\ class_id \in DOMAIN YOLO_CLASS_MAPPING

\* C7: map_to_target_category resolves in strict priority order, first match
\* wins: (1) a target category name inside the lowercased label, whatever the
\* class id; (2) otherwise the id table's category, whatever synonym the label
\* holds; (3) otherwise the synonym sets, toolbox before fire extinguisher
\* before oxygen tank; (4) otherwise unmapped. Both copies of the function
\* agree.
C7_MapperPriorityOrder ==
  Mapped =>
    LET label == inp.original_class
        named == NamedIn(label)
        category == out.category
    IN /\ named # {}
            => \E k \in named : /\ category = TARGET_CATEGORIES[k]
                                /\ \A j \in named : k <= j
       /\ (named = {} /\ InIdTable(inp.class_id))
            => category = YOLO_CLASS_MAPPING[inp.class_id]
       /\ (named = {} /\ ~InIdTable(inp.class_id))
            => category = (IF Mentions(ToolboxWords, label) THEN "toolbox"
                           ELSE IF Mentions(FireWords, label) THEN "fire extinguisher"
                           ELSE IF Mentions(OxygenWords, label) THEN "oxygen tank"
                           ELSE None)
       /\ out.pure = category

\* the mapper was called with a label that holds a category name and with a
\* class id the table sends to a different category, and returned the name
C7_Witness ==
  /\ Mapped
  /\ NamedIn(inp.original_class) # {}
  /\ InIdTable(inp.class_id)
  /\ YOLO_CLASS_MAPPING[inp.class_id] # out.category
  /\ out.category \in TargetSet

\* the categories one of whose synonyms the lowercased label holds
SynonymCategories(label) ==
  { c \in TargetSet :
      Mentions(CASE c = "toolbox" -> ToolboxWords
                 [] c = "fire extinguisher" -> FireWords
                 [] c = "oxygen tank" -> OxygenWords, label) }

\* C8: for a raw label that holds a synonym of exactly one target category and
\* no target category name, with a class id that is absent or not in the id
\* table, the mapper returns that synonym's category.
C8_SingleSynonymMaps ==
  (/\ Mapped
   /\ NamedIn(inp.original_class) = {}
   /\ ~InIdTable(inp.class_id)
   /\ Cardinality(SynonymCategories(inp.original_class)) = 1)
    => out.category \in SynonymCategories(inp.original_class)

\* "bottle" with a class id the table does not hold came back as fire extinguisher
C8_Witness ==
  /\ Mapped
  /\ inp.original_class = "bottle"
  /\ inp.class_id = 0
  /\ out.category = "fire extinguisher"

\* the raw boxes the primary detector of the running call returned
SeenBoxes ==
  UNION { { raw.results[r].boxes[i] : i \in 1..Len(raw.results[r].boxes) } :
            r \in 1..Len(raw.results) }

\* the detection has the place of the raw box b
PlacedAt(d, b) ==
  LET g == IF entry = "yolov5_integrated" THEN v5_centered(b.xyxy, ImageShape)
           ELSE Normalized(b.xyxy, ImageShape)
  IN d.x = g.x /\ d.y = g.y /\ d.width = g.width /\ d.height = g.height

\* what the mapper of the running entry point makes of the raw box b
MapperSays(b) ==
  IF entry = "yolov5_integrated"
  THEN IF b.cls \in DOMAIN COCO_TO_SPACE_MAPPING THEN COCO_TO_SPACE_MAPPING[b.cls]
       ELSE None
  ELSE map_to_target_category(DetectorNames[b.cls], b.cls)

\* C9: a raw detection the mapper leaves unmapped is dropped: every emitted
\* detection that sits on a raw box sits on one the mapper mapped to the
\* emitted label; no unmapped raw box is relabeled and emitted.
C9_UnmappedAreDropped ==
  (/\ Returned
   /\ entry \in {"yolo_detector", "yolo_detector_pure", "yolov5_integrated"}
   /\ "kind" \in DOMAIN raw
   /\ raw.kind = "results"
   /\ out.success)
    => \A d \in Detections :
         (\E b \in SeenBoxes : PlacedAt(d, b))
           => \E b \in SeenBoxes : PlacedAt(d, b) /\ MapperSays(b) = d.label

\* C10: whenever the synthetic fallback produces the result, the result holds
\* exactly 3 detections, exactly one for each target category, and count == 3.
C10_SyntheticFallbackIsThree ==
  (pc = "done" /\ stages # <<>> /\ stages[Len(stages)] = "synthetic")
    => /\ out.count = 3
       /\ Len(out.detections) = 3
       /\ \A c \in TargetSet :
            Cardinality({ k \in 1..Len(out.detections) :
                            out.detections[k].label = c }) = 1

(***************************************************************************)
(* Properties of calls in parallel threads.                                *)
(***************************************************************************)
\* every thread's call has returned
AllReturned == \A t \in Threads : threads[t].pc = "done"

\* the (label, x, y, width, height, confidence) values of an envelope's
\* detections, in order: everything but the ids
Values(envelope) ==
  [k \in 1..Len(envelope.detections) |->
     LET d == envelope.detections[k]
     IN <<d.label, d.x, d.y, d.width, d.height, d.confidence>>]

\* C11: the synthetic fallback generator is deterministic: any two calls of one
\* generator made with no primary or heuristic evidence, for any two images and
\* in any order, return the same sequence of (label, x, y, width, height,
\* confidence) values.
C11_SyntheticIsDeterministic ==
  (/\ AllReturned
   /\ threads[1].entry = threads[2].entry
   /\ threads[1].out.success /\ threads[2].out.success)
    => Values(threads[1].out) = Values(threads[2].out)

(***************************************************************************)
(* Properties of the stages of one call.                                   *)
(***************************************************************************)
\* the call has returned and the last stage it entered is the synthetic one
EndedSynthetic ==
  pc = "done" /\ stages # <<>> /\ stages[Len(stages)] = "synthetic"

\* the boxes of two detections share interior area
Overlap(a, b) ==
  /\ a.x < b.x + b.width /\ b.x < a.x + a.width
  /\ a.y < b.y + b.height /\ b.y < a.y + a.height

\* C12: the fixed synthetic table is well formed: its placeholder boxes are
\* pairwise non-overlapping and every placeholder confidence lies in
\* [0.75, 0.95].
C12_SyntheticTableWellFormed ==
  EndedSynthetic =>
    /\ \A i, j \in 1..Len(out.detections) :
         i # j => ~Overlap(out.detections[i], out.detections[j])
    /\ \A d \in Detections : Pct(75) <= d.confidence /\ d.confidence <= Pct(95)

\* create_fallback_detections returned its three placeholders
C12_Witness ==
  /\ EndedSynthetic
  /\ entry \in {"yolo11n_detector", "basic_detector"}
  /\ out.method = "fallback"
  /\ Len(out.detections) = 3
  /\ \A d \in Detections : d.forced

\* the entry points that run the detection stages on an image
Pipelines ==
  {"yolo_detector", "yolo_detector_pure", "yolo11n_detector", "basic_detector",
   "main", "yolov5_integrated"}

\* the running call entered the stage
Entered(stage) == \E i \in 1..Len(stages) : stages[i] = stage

\* the last stage the running call entered
LastStage == stages[Len(stages)]

\* the place of a stage in primary -> heuristic -> synthetic; the forced
\* classification works on the primary's boxes, the fill of yolov5_integrated.py
\* is its synthetic generator
StageRank(stage) ==
  CASE stage = "primary" -> 1
    [] stage = "forced" -> 2
    [] stage = "heuristic" -> 3
    [] stage \in {"synthetic", "fill"} -> 4
    [] OTHER -> 0

\* how many mapped detections the run of the child process yielded
ChildYield(run) ==
  IF ~run.timed_out /\ run.import_ok /\ run.outcome.kind = "results"
  THEN Len(mapped_detections(run.outcome.results,
                             subprocess_space_classes(run.outcome.results)))
  ELSE 0

\* how many mapped detections the primary stage of the running call yielded
PrimaryYield ==
  IF ~Entered("primary") THEN 0
  ELSE CASE entry = "yolo_detector" /\ "kind" \in DOMAIN raw ->
              IF raw.kind = "results"
              THEN Len(mapped_detections(raw.results,
                                         direct_space_classes(raw.results)))
              ELSE IF "child" \in DOMAIN raw THEN ChildYield(raw.child)
              ELSE 0
         [] entry = "yolo_detector" /\ "timed_out" \in DOMAIN raw ->
              ChildYield(raw)
         [] entry = "yolo_detector_pure" ->
              IF raw.kind = "results"
              THEN Len(mapped_detections(raw.results,
                                         pure_space_classes(raw.results)))
              ELSE 0
         [] entry = "yolov5_integrated" ->
              IF raw.kind = "results" THEN Len(v5_boxes(raw.results)) ELSE 0
         [] OTHER -> 0

\* how many detections the heuristic stage of the running call yielded
HeuristicYield ==
  IF ~Entered("heuristic") THEN 0
  ELSE CASE entry \in {"yolo_detector", "main"} ->
              IF "file_hash" \in DOMAIN heur THEN 1 ELSE 0
         [] entry = "yolo11n_detector" /\ "color" \in DOMAIN heur ->
              IF heur.color.kind = "contours"
              THEN Len(color_pass(heur.color.contours, inp.conf_threshold,
                                  ImageShape))
              ELSE 0
         [] entry = "yolo11n_detector" /\ "shape" \in DOMAIN heur ->
              IF heur.shape.kind = "contours"
              THEN Len(shape_pass(heur.shape.contours, inp.conf_threshold,
                                  ImageShape))
              ELSE 0
         [] entry = "basic_detector" ->
              IF heur.kind = "contours" THEN Len(basic_kept(heur.contours)) ELSE 0
         [] OTHER -> 0

\* the stages were entered in the order primary -> heuristic -> synthetic
StagesInOrder ==
  \A i, j \in 1..Len(stages) :
    i < j => StageRank(stages[i]) <= StageRank(stages[j])

\* a primary stage that yields a detection ends the pipeline with its detections
PrimaryYieldEnds ==
  PrimaryYield >= 1
    => LastStage = "primary" /\ out.success /\ out.count = PrimaryYield

\* a primary stage that yields nothing contributes nothing to a success
PrimaryEmptyPassesOn ==
  (Entered("primary") /\ PrimaryYield = 0 /\ out.success)
    => LastStage \in {"heuristic", "synthetic", "fill"}

\* a heuristic stage that yields a detection ends the pipeline with its detections
HeuristicYieldEnds ==
  HeuristicYield >= 1
    => LastStage = "heuristic" /\ out.success /\ out.count = HeuristicYield

\* on a readable image the call ends in Success
ReadableSucceeds ==
  (inp.image.exists /\ inp.image.readable) => out.success

\* C13: stages run in the fixed order primary -> heuristic -> synthetic: the
\* heuristic stage is entered only if the primary stage ended with zero mapped
\* detections, the synthetic stage only if the heuristic stage ended with zero
\* detections, a stage that yields at least one detection ends the pipeline
\* with exactly that stage's detections, and for a readable image the Success
\* terminal state is always reached.
C13_StagesRunInOrder ==
  (Returned /\ entry \in Pipelines) =>
    /\ StagesInOrder
    /\ PrimaryYieldEnds
    /\ PrimaryEmptyPassesOn
    /\ HeuristicYieldEnds
    /\ ReadableSucceeds

\* how many times the running call has entered the stage
TimesEntered(stage) == Cardinality({ i \in 1..Len(stages) : stages[i] = stage })

\* C14: within one invocation each stage (primary detector, heuristic
\* detector, synthetic generator) is executed at most once: a primary detector
\* that crashes or times out is not invoked a second time, and no stage is
\* re-entered after a later stage has started.
C14_StagesRunAtMostOnce ==
  entry \in Pipelines =>
    /\ \A stage \in {"primary", "heuristic", "synthetic"} : TimesEntered(stage) <= 1
    /\ \A i, j \in 1..Len(stages) :
         i < j => StageRank(stages[i]) <= StageRank(stages[j])

\* the child process of the running call outlasted its 30 seconds
TimedOut ==
  \/ "timed_out" \in DOMAIN raw /\ raw.timed_out
  \/ "child" \in DOMAIN raw /\ raw.child.timed_out

\* C15: when the primary detector runs as a child process the call is bounded
\* by a timeout; a timeout is treated as zero raw detections, so the pipeline
\* continues with the next fallback stage (it waits at the heuristic stage or
\* has returned from it) and still returns a result instead of blocking or
\* failing: the envelope of the heuristic stage, a non-empty success whenever
\* that stage yields a detection.
C15_TimeoutIsZeroDetections ==
  (entry = "yolo_detector" /\ TimedOut) =>
    /\ pc \in {"heuristic", "done"}
    /\ PrimaryYield = 0
    /\ pc = "done" =>
         /\ LastStage = "heuristic"
         /\ out # NoResult
         /\ HeuristicYield >= 1 => NonEmptySuccess /\ out.method = "opencv"

\* the child timed out and the call returned the heuristic stage's detection
C15_Witness ==
  /\ Returned
  /\ entry = "yolo_detector"
  /\ TimedOut
  /\ inp.image.readable
  /\ out.success /\ out.method = "opencv" /\ out.count = 1

\* the returned detections were made up without evidence from the image: the
\* placeholder tables, the simulated detectors' random boxes, and the fill of
\* yolov5_integrated.py when the model found no box
SyntheticResult ==
  /\ stages # <<>>
  /\ \/ LastStage \in {"synthetic", "simulated"}
     \/ LastStage = "fill" /\ PrimaryYield = 0

\* C16: the method field names the stage that produced the returned
\* detections: method is the fallback tag if and only if the detections are
\* the synthetic placeholders; placeholders are never tagged with a primary or
\* heuristic method name, and real detections are never tagged fallback.
C16_MethodNamesTheStage ==
  (Returned /\ out.success) => (out.method = "fallback" <=> SyntheticResult)

\* an OpenCV call of the heuristic stage of the running call raised
HeuristicFailed ==
  \/ "kind" \in DOMAIN heur /\ heur.kind = "raise"
  \/ "color" \in DOMAIN heur /\ heur.color.kind = "raise"
  \/ "shape" \in DOMAIN heur /\ heur.shape.kind = "raise"

\* a failure of the heuristic stage is absorbed: the synthetic fallback answers
HeuristicFailureAbsorbed ==
  HeuristicFailed => EndedSynthetic /\ NonEmptySuccess

\* only a missing or undecodable image is reported as a failure
OnlyImageErrorFails ==
  ~out.success => ~(inp.image.exists /\ inp.image.readable)

\* C17: no exception escapes the public detect call: for every input and every
\* failure inside a stage the call returns an envelope; a heuristic-stage
\* failure is absorbed and routed to the synthetic fallback, and only the
\* unreadable or missing image is reported as a failure.
C17_FailuresAreAbsorbed ==
  Returned =>
    /\ "success" \in DOMAIN out /\ "detections" \in DOMAIN out
    /\ HeuristicFailureAbsorbed
    /\ OnlyImageErrorFails

\* the primary stage of the running call returned raw boxes and its mapped
\* detections are in the returned envelope
AnsweredByPrimary ==
  /\ out.success
  /\ \/ entry = "yolo_detector" /\ out.method \in {"yolov8-direct", "yolov8-py39"}
     \/ entry = "yolo_detector_pure" /\ out.method = "yolov8" /\ LastStage = "primary"
     \/ entry = "yolov5_integrated" /\ stages[1] = "primary"

\* the raw results that primary stage returned
PrimaryResults ==
  IF entry = "yolo_detector" /\ out.method = "yolov8-py39"
  THEN (IF "child" \in DOMAIN raw THEN raw.child ELSE raw).outcome.results
  ELSE raw.results

\* the detections of the envelope that the primary stage made
PrimaryDetections ==
  IF entry = "yolov5_integrated"
  THEN SubSeq(out.detections, 1, Len(heur.labels))
  ELSE out.detections

\* the place a raw box gets in the envelope of the running entry point
PlaceOfBox(b) ==
  IF entry = "yolov5_integrated" THEN v5_centered(b.xyxy, ImageShape)
  ELSE Normalized(b.xyxy, ImageShape)

PlaceOf(d) == [x |-> d.x, y |-> d.y, width |-> d.width, height |-> d.height]

RECURSIVE IsSubsequence(_, _)
\* s is t with some elements left out, the others in their order
IsSubsequence(s, t) ==
  IF s = <<>> THEN TRUE
  ELSE IF t = <<>> THEN FALSE
  ELSE IF Head(s) = Head(t) THEN IsSubsequence(Tail(s), Tail(t))
  ELSE IsSubsequence(s, Tail(t))

\* C18: within the primary stage the output keeps the detector's native order:
\* the mapped detections appear in the same relative order as their raw boxes
\* were returned, with no reordering, reversal or sorting by confidence.
C18_PrimaryKeepsNativeOrder ==
  (Returned /\ AnsweredByPrimary) =>
    LET flat == Flatten(PrimaryResults)
    IN IsSubsequence([k \in 1..Len(PrimaryDetections) |-> PlaceOf(PrimaryDetections[k])],
                     [i \in 1..Len(flat) |-> PlaceOfBox(flat[i].box)])

(***************************************************************************)
(* Calls in parallel threads.                                              *)
(***************************************************************************)
\* the entry points whose output, run alone, is a function of the image
AloneIsFixed == {"basic_detector", "server_basic_detector"}

\* the envelope the call of thread t returns when no other call runs
RunAlone(t) ==
  IF threads[t].entry = "server_basic_detector"
  THEN basic_detect_objects(threads[t].image, None)
  ELSE detect_basic(FALSE, threads[t].image, NoResult, <<>>)

\* C19: concurrent invocations share no mutable state: for any interleaving of
\* two detect calls in parallel threads on two images, each call returns the
\* same labels, positions and confidences it returns when run alone; seeding
\* and drawing from the process-wide generator in one call does not change
\* the other call's output.
C19_ParallelCallsAreIndependent ==
  \A t \in Threads :
    (threads[t].pc = "done" /\ threads[t].entry \in AloneIsFixed)
      => /\ threads[t].out.success = RunAlone(t).success
         /\ Values(threads[t].out) = Values(RunAlone(t))

(***************************************************************************)
(* The envelope's counters.                                                *)
(***************************************************************************)
\* count is the number of detections, a success holds one at least, a failure
\* holds none
WellCounted(envelope) ==
  /\ envelope.count = Len(envelope.detections)
  /\ envelope.success => envelope.count >= 1
  /\ ~envelope.success => envelope.detections = <<>> /\ envelope.count = 0

\* the child process of the running call got as far as detect_with_yolo
ChildReturned ==
  /\ entry = "yolo_detector"
  /\ \/ "child" \in DOMAIN raw
     \/ "timed_out" \in DOMAIN raw
  /\ LET run == IF "child" \in DOMAIN raw THEN raw.child ELSE raw
     IN ~run.timed_out /\ run.import_ok

\* the envelope detect_with_yolo of yolo_subprocess.py returned in that child
ChildEnvelope ==
  LET run == IF "child" \in DOMAIN raw THEN raw.child ELSE raw
  IN detect_with_yolo(inp.image, inp.model_path, inp.model_exists, run.outcome)

\* C20: in every returned envelope count equals the length of detections,
\* success implies count >= 1, and a failure has no detections and count 0.
C20_CountMatchesDetections ==
  /\ Returned => WellCounted(out)
  /\ ChildReturned => WellCounted(ChildEnvelope)

(***************************************************************************)
(* End-to-end scenarios.                                                   *)
(***************************************************************************)
\* the raw box of scenario A: class "suitcase" (COCO id 28), confidence 0.81
SuitcaseBox == [cls |-> 28, conf |-> Pct(81), xyxy |-> <<60, 40, 180, 200>>]

\* the results the primary detector of the running call returned, in process
\* or in the child; none when it raised, timed out or did not run
PrimaryRaw ==
  IF "kind" \in DOMAIN raw /\ raw.kind = "results" THEN raw.results
  ELSE IF ChildReturned
  THEN LET run == IF "child" \in DOMAIN raw THEN raw.child ELSE raw
       IN IF run.outcome.kind = "results" THEN run.outcome.results ELSE <<>>
  ELSE <<>>

\* the primary detector returned the suitcase box and nothing else
ScenarioA ==
  /\ Returned
  /\ entry \in {"yolo_detector", "yolo_detector_pure"}
  /\ LET flat == Flatten(PrimaryRaw)
     IN Len(flat) = 1 /\ flat[1].box = SuitcaseBox
        /\ DetectorNames[flat[1].box.cls] = "suitcase"

\* C21: scenario A: when the primary detector returns a single box with raw
\* class "suitcase" at confidence 0.81, the box is mapped to toolbox and the
\* output has exactly one detection with label toolbox, toolbox's fixed
\* color, the raw confidence unchanged, and a primary-detector method tag.
C21_SuitcaseBecomesToolbox ==
  ScenarioA =>
    /\ out.success /\ out.count = 1 /\ Len(out.detections) = 1
    /\ out.detections[1].label = "toolbox"
    /\ out.detections[1].color = OBJECT_COLORS["toolbox"]
    /\ out.detections[1].confidence = Pct(81)
    /\ out.method \in {"yolov8-direct", "yolov8-py39", "yolov8"}

C21_Witness ==
  /\ ScenarioA /\ entry = "yolo_detector"
  /\ out.success /\ out.method = "yolov8-direct"
  /\ out.detections[1].label = "toolbox"
  /\ out.detections[1].originalClass = "suitcase"

\* the region of scenario B: red, tall (30 x 60 px), contour area 600 px2
TallRegion == [area |-> 600, x |-> 60, y |-> 40, w |-> 30, h |-> 60]

\* the colour masks of an image that holds that region and nothing else
RedTallOnly ==
  [label \in TargetSet |->
     IF label = "fire extinguisher" THEN <<TallRegion>> ELSE <<>>]

\* the method tags of the heuristic stage
HeuristicMethods == {"opencv", "color_shape_detection", "color_detection"}

\* scenario B: no primary detection, and the heuristic stage has analysed an
\* image whose only coloured region is the red tall one (threshold 0.25)
ScenarioB ==
  /\ Returned
  /\ \/ /\ entry = "yolo_detector"
        /\ PrimaryYield = 0
        /\ "max_color" \in DOMAIN heur /\ heur.max_color = "fire extinguisher"
     \/ /\ entry = "yolo11n_detector"
        /\ inp.conf_threshold = Pct(25)
        /\ "color" \in DOMAIN heur /\ heur.color.kind = "contours"
        /\ heur.color.contours = RedTallOnly
     \/ /\ entry = "basic_detector"
        /\ "kind" \in DOMAIN heur /\ heur.kind = "contours"
        /\ heur.contours = RedTallOnly

\* C22: scenario B: when the primary detector is unavailable and the image
\* contains a red, tall region of area 600 px2, the output label is fire
\* extinguisher and the method tag is the heuristic one; the label depends on
\* the image's pixel content, not on the file name.
C22_RedTallIsFireExtinguisher ==
  ScenarioB =>
    /\ out.success /\ out.count >= 1
    /\ \A k \in 1..Len(out.detections) :
         out.detections[k].label = "fire extinguisher"
    /\ out.method \in HeuristicMethods

(***************************************************************************)
(* The heuristic stage.                                                    *)
(***************************************************************************)
\* the colour pass of the running call kept a region and answered
ColourAnswered ==
  /\ Returned /\ out.success /\ stages = <<"heuristic">>
  /\ \/ /\ entry = "yolo11n_detector"
        /\ "color" \in DOMAIN heur /\ heur.color.kind = "contours"
     \/ /\ entry = "basic_detector"
        /\ "kind" \in DOMAIN heur /\ heur.kind = "contours"

\* the contours of the colour masks that pass saw
ColourContours ==
  IF entry = "yolo11n_detector" THEN heur.color.contours ELSE heur.contours

\* the shape filter of a category: tall, near-square, wide
PassesShapeFilter(label, c) ==
  CASE label = "fire extinguisher" -> c.w * 10 < 8 * c.h /\ c.h > 50
    [] label = "oxygen tank" -> 5 * c.h < c.w * 10 /\ c.w * 10 < 15 * c.h
    [] label = "toolbox" -> c.w * 10 > 8 * c.h /\ c.w > 50
    [] OTHER -> FALSE

\* the detection d was made from the contour c
MadeFrom(d, c) ==
  LET g == NormalizedRect(c, ImageShape)
  IN d.x = g.x /\ d.y = g.y /\ d.width = g.width /\ d.height = g.height

\* C23: in the colour pass a region is accepted only if it passes its
\* category's shape filter (fire extinguisher: w/h < 0.8 and h > 50 px; oxygen
\* tank: 0.5 < w/h < 1.5; toolbox: w/h > 0.8 and w > 50 px); a region failing
\* its filter produces no detection.
C23_ColourPassFiltersByShape ==
  ColourAnswered =>
    \A k \in 1..Len(out.detections) :
      LET d == out.detections[k]
          mask == ColourContours[d.label]
      IN \A i \in 1..Len(mask) :
           MadeFrom(d, mask[i]) => PassesShapeFilter(d.label, mask[i])

\* the region c of a colour mask reaches the confidence test of the running
\* entry point
Eligible(label, c) ==
  IF entry = "yolo11n_detector" THEN ~(c.area < 300) /\ color_valid(label, c)
  ELSE ~(c.area < 500)

\* the confidence lies in [0, 1), below 1.0
ConfidenceBelowOne ==
  \A k \in 1..Len(out.detections) :
    out.detections[k].confidence >= 0 /\ out.detections[k].confidence < Unit

\* the confidence is a non-decreasing function of the region's area: of two
\* regions of one category the larger never gets the lower confidence
ConfidenceGrowsWithArea ==
  \A k, l \in 1..Len(out.detections) :
    LET d == out.detections[k]
        e == out.detections[l]
    IN d.label = e.label =>
         \A i, j \in 1..Len(ColourContours[d.label]) :
           LET c == ColourContours[d.label][i]
               b == ColourContours[d.label][j]
           IN (MadeFrom(d, c) /\ MadeFrom(e, b) /\ c.area <= b.area)
                => d.confidence <= e.confidence

\* a region is rejected only when its confidence is below the threshold: one
\* whose confidence equals the threshold is kept
KeptAtThreshold ==
  entry = "yolo11n_detector" =>
    \A label \in TargetSet : \A i \in 1..Len(ColourContours[label]) :
      LET c == ColourContours[label][i]
      IN (Eligible(label, c) /\ color_confidence(label, c) >= inp.conf_threshold)
           => \E k \in 1..Len(out.detections) :
                out.detections[k].label = label /\ MadeFrom(out.detections[k], c)

\* C24: heuristic confidence is a non-decreasing, saturating function of region
\* area, clipped to a per-category maximum strictly below 1.0, and a region is
\* rejected exactly when its confidence is below the caller-supplied
\* threshold: a region whose confidence equals the threshold is kept.
C24_ConfidenceFromAreaAndThreshold ==
  ColourAnswered =>
    /\ ConfidenceBelowOne
    /\ ConfidenceGrowsWithArea
    /\ KeptAtThreshold

\* the edge pass of the running call has run and extracted contours
EdgePassRan ==
  /\ entry = "yolo11n_detector" /\ pc = "done"
  /\ "shape" \in DOMAIN heur /\ heur.shape.kind = "contours"

\* the edge pass runs only after a colour pass that kept nothing, and a colour
\* pass that kept nothing is followed by it (never by the fallback directly)
EdgePassIffColourEmpty ==
  /\ (pc = "shape" \/ "shape" \in DOMAIN heur) =>
       stages[1] = "heuristic" /\ (pc = "shape" => heur.color.kind = "nothing kept")
  /\ (pc = "done" /\ "color" \in DOMAIN heur) =>
       \/ heur.color.kind = "raise" /\ LastStage = "synthetic"
       \/ heur.color.kind = "contours" /\ out.count >= 1
                                       /\ out.method = "color_shape_detection"

\* the coarse classes of the edge pass: tall, square, wide
CoarseClass(c) ==
  IF c.h > c.w THEN "fire extinguisher"
  ELSE IF c.h = c.w THEN "oxygen tank"
  ELSE "toolbox"

\* every contour of the edge image that survives the area test is classified
\* and emitted (threshold 0.25, below every confidence of the pass)
EdgeContoursAllClassified ==
  (EdgePassRan /\ inp.conf_threshold = Pct(25)) =>
    \A i \in 1..Len(heur.shape.contours) :
      LET c == heur.shape.contours[i]
      IN ~(c.area < 500) =>
           \E k \in 1..Len(out.detections) :
             /\ MadeFrom(out.detections[k], c)
             /\ out.detections[k].label = CoarseClass(c)

\* C25: the edge-based second pass runs if and only if the colour pass
\* produced zero detections, and it classifies every surviving contour as
\* tall -> fire extinguisher, square -> oxygen tank or wide -> toolbox; the
\* synthetic fallback is reached only when a contour of every aspect ratio
\* has had a chance to be classified: no band is left unclassified.
C25_EdgePassClassifiesEveryContour ==
  entry = "yolo11n_detector" =>
    /\ EdgePassIffColourEmpty
    /\ EdgeContoursAllClassified
    /\ (EdgePassRan /\ inp.conf_threshold = Pct(25) /\ LastStage = "synthetic")
         => \A i \in 1..Len(heur.shape.contours) : heur.shape.contours[i].area < 500

(***************************************************************************)
(* Forced classification (yolo_detector_pure.py).                          *)
(***************************************************************************)
\* the pure detector of the running call ran and returned results
PureRan ==
  /\ Returned /\ entry = "yolo_detector_pure"
  /\ "kind" \in DOMAIN raw /\ raw.kind = "results"

\* the raw box with the highest confidence over all raw boxes of the
\* invocation, the earliest one on ties
MostConfident(flat) ==
  flat[CHOOSE i \in 1..Len(flat) :
         /\ \A j \in 1..Len(flat) : flat[j].box.conf <= flat[i].box.conf
         /\ \A j \in 1..(i - 1) : flat[j].box.conf < flat[i].box.conf].box

\* the label forced classification gives a box whose left edge is at x
LabelByPosition(x) ==
  IF x < Pct(33) THEN "toolbox"
  ELSE IF x < Pct(66) THEN "fire extinguisher"
  ELSE "oxygen tank"

\* it fires only when no raw box was mapped and a raw box exists
ForcedOnlyWhenUnmapped ==
  (PureRan /\ Entered("forced")) =>
    PrimaryYield = 0 /\ Len(Flatten(raw.results)) >= 1

\* with raw boxes and none mapped: one forced detection on the most confident
\* box of the invocation
ForcedOnMostConfident ==
  (PureRan /\ PrimaryYield = 0 /\ Len(Flatten(raw.results)) >= 1) =>
    LET b == MostConfident(Flatten(raw.results))
        g == Normalized(b.xyxy, ImageShape)
    IN /\ out.success /\ out.count = 1 /\ Len(out.detections) = 1
       /\ "forced" \in DOMAIN out.detections[1] /\ out.detections[1].forced
       /\ PlaceOf(out.detections[1]) = g
       /\ out.detections[1].confidence = (b.conf * 8) \div 10
       /\ out.detections[1].label = LabelByPosition(g.x)

\* no result object at all: success with one placeholder toolbox
NoResultIsPlaceholder ==
  (PureRan /\ raw.results = <<>>) =>
    /\ out.success /\ out.count = 1 /\ Len(out.detections) = 1
    /\ out.detections[1].label = "toolbox"

\* C26: forced classification in the pure YOLO path fires only when no raw box
\* was mapped and at least one raw box exists; it selects the raw box with the
\* highest confidence over all raw boxes of the invocation (the earliest on
\* ties), emits exactly one detection marked forced with 0.8 times the raw
\* confidence, labelled toolbox for x < 0.33, fire extinguisher for
\* 0.33 <= x < 0.66 and oxygen tank otherwise; with no result object at all
\* the path still ends in success with one placeholder toolbox.
C26_ForcedClassification ==
  /\ ForcedOnlyWhenUnmapped
  /\ ForcedOnMostConfident
  /\ NoResultIsPlaceholder

(***************************************************************************)
(* The child process of yolo_detector.py.                                  *)
(***************************************************************************)
\* subprocess.run was called in the running call
ChildStarted ==
  /\ entry = "yolo_detector"
  /\ \/ "child" \in DOMAIN raw
     \/ "timed_out" \in DOMAIN raw

\* the child exited with code 0 and wrote a non-empty success
ChildAccepted ==
  ChildReturned /\ LET envelope == ChildEnvelope
                   IN envelope.success /\ envelope.count > 0

\* the envelope is the child's, each detection with an id of its own
IsChildResultWithIds ==
  LET envelope == ChildEnvelope
  IN /\ out.success = envelope.success /\ out.count = envelope.count
     /\ out.method = envelope.method /\ out.model = envelope.model
     /\ Len(out.detections) = Len(envelope.detections)
     /\ \A k \in 1..Len(out.detections) :
          /\ "id" \in DOMAIN out.detections[k]
          /\ \A f \in DOMAIN envelope.detections[k] :
               out.detections[k][f] = envelope.detections[k][f]
          /\ \A l \in 1..Len(out.detections) :
               l # k => out.detections[l].id # out.detections[k].id

\* C27: the parent returns the child's result only if the child exited with
\* code 0, its output parses, success is true and count > 0, and then every
\* returned detection carries a freshly generated id; in every other outcome
\* (non-zero exit, timeout, missing output, success false, count 0) the parent
\* returns no result and the heuristic stage runs.
C27_ChildHandshake ==
  ChildStarted =>
    IF ChildAccepted
    THEN pc = "done" /\ LastStage = "primary" /\ IsChildResultWithIds
    ELSE \/ pc = "heuristic" /\ out = NoResult
         \/ pc = "done" /\ LastStage = "heuristic"
                        /\ (out.success => out.method = "opencv")

C27_Witness ==
  /\ ChildStarted /\ ChildAccepted /\ pc = "done"
  /\ out.method = "yolov8-py39" /\ out.count = 2
  /\ out.detections[1].id # out.detections[2].id

C29_InlineMappingIsEquivalent ==
  /\ (pc = "done" /\ entry = "map_to_target_category") =>
       out.inline = out.category
  /\ (entry = "yolo_detector" /\ pc \in {"heuristic", "done"}) =>
       subprocess_space_classes(PrimaryRaw) = direct_space_classes(PrimaryRaw)

\* a pair that STEP 2 settles, and one that no step maps
C29_Witness ==
  /\ pc = "done" /\ entry = "map_to_target_category"
  /\ inp.original_class = "sports ball" /\ inp.class_id = 32
  /\ out.category = "oxygen tank" /\ out.inline = "oxygen tank"

(***************************************************************************)
(* The simulated YOLOv5 detector.                                          *)
(***************************************************************************)
\* the call t has returned a success
Succeeded(t) == threads[t].pc = "done" /\ threads[t].out.success

\* C30: the simulated YOLOv5 detector always returns between 3 and 5
\* detections, the first three being one of each target category in the order
\* toolbox, fire extinguisher, oxygen tank, and two sequential calls with the
\* same image file name return the same labels, positions and confidences.
C30_SimulatedIsRepeatable ==
  /\ \A t \in Threads :
       Succeeded(t) =>
         /\ threads[t].out.count = Len(threads[t].out.detections)
         /\ threads[t].out.count >= 3 /\ threads[t].out.count <= 5
         /\ \A i \in 1..3 :
              threads[t].out.detections[i].label = TARGET_CATEGORIES[i]
  /\ \A t, u \in Threads :
       (/\ Succeeded(t) /\ Succeeded(u)
        /\ basename(threads[t].image.path) = basename(threads[u].image.path))
         => Values(threads[t].out) = Values(threads[u].out)

\* two calls on one file, five detections each
C30_Witness ==
  /\ Succeeded(1) /\ Succeeded(2)
  /\ threads[1].image = threads[2].image
  /\ threads[1].out.count = 5
  /\ Values(threads[1].out) = Values(threads[2].out)

=============================================================================
